---------------------------- MODULE Spec2Model ----------------------------
(***************************************************************************)
(* Column-level lineage extraction: the statement splitter, the SQL        *)
(* normalizer, the column-mapping resolver and the metadata registry of    *)
(* lineage_analyzer, modelled from the Python source.                      *)
(*                                                                         *)
(* Text is a TLA+ string; Python's None for an optional string argument    *)
(* is the empty string (the code only tests such arguments for truth).     *)
(* A dict is a function on its key set; an ordered dict whose order the    *)
(* code exposes (the column mapping) is a sequence of <<key, value>>.      *)
(***************************************************************************)
EXTENDS Integers, Sequences, FiniteSets, TLC

VARIABLES
    \* extract_sql_statements (extractor.py)
    sql_file_content, sql_content, idx, current_statement, in_quote,
    quote_char, statements, sp_pc,
    \* normalize_sql / _normalize_sql
    nz_text, nz_once, nz_twice, nz_pc,
    \* LineageAnalyzer.analyze_sql
    in_kind, in_cols, in_exprs, sql_text, column_mappings, an_pc,
    \* MetadataStore
    metadata, call, n_ops, json_doc, imported,
    \* display_visualizations / LineageVisualizer
    viz_mappings, graph_data, mermaid, gr_pc,
    \* SQLComponentExtractor and LineageAnalyzer on one statement text
    cl_text, cl_n, cl_call,
    \* the analysis loop of main over the statements of a script
    lp_script, lp_statements, lp_i, lp_pc, lp_mappings

splitVars == <<sql_file_content, sql_content, idx, current_statement,
               in_quote, quote_char, statements, sp_pc>>
normVars  == <<nz_text, nz_once, nz_twice, nz_pc>>
anVars    == <<in_kind, in_cols, in_exprs, sql_text, column_mappings, an_pc>>
storeVars == <<metadata, call, n_ops, json_doc, imported>>
graphVars == <<viz_mappings, graph_data, mermaid, gr_pc>>
clauseVars == <<cl_text, cl_n, cl_call>>
loopVars   == <<lp_script, lp_statements, lp_i, lp_pc, lp_mappings>>
vars      == <<splitVars, normVars, anVars, storeVars, graphVars, clauseVars, loopVars>>

-----------------------------------------------------------------------------
(* Bounds of the model *)

\* longest generated input text of the splitter
MaxLen == 4
\* longest generated input text of the normalizer
MaxNormLen == 5
\* most mutator calls in one session on a store
MaxOps == 3
\* most target columns of a generated INSERT statement
MaxCols == 3
\* most projection expressions of a generated statement
MaxExprs == 2

\* the longest expression used verbatim as a derived column name (analyzer.py:209)
MaxDerivedNameLen == 30

-----------------------------------------------------------------------------
(* Characters and strings *)

Ch(s, i) == SubSeq(s, i, i)

\* Python's \s and str.strip() whitespace (the ASCII part the inputs use)
WS == {" ", "\n", "\t", "\r"}

LowerChars == "abcdefghijklmnopqrstuvwxyz"
UpperChars == "ABCDEFGHIJKLMNOPQRSTUVWXYZ"
Digits == "0123456789"

CharsOf(s) == {Ch(s, i) : i \in 1..Len(s)}

\* [a-zA-Z0-9_]
WordChars == CharsOf(LowerChars) \cup CharsOf(UpperChars) \cup CharsOf(Digits) \cup {"_"}
IsWord(c) == c \in WordChars

\* str.upper() of one character
UpperOf == [c \in CharsOf(LowerChars) |->
              Ch(UpperChars, CHOOSE i \in 1..Len(LowerChars) : Ch(LowerChars, i) = c)]
UpperCh(c) == IF c \in DOMAIN UpperOf THEN UpperOf[c] ELSE c

RECURSIVE Upper(_)
Upper(s) ==
    IF Len(s) = 0 THEN ""
    ELSE IF Len(s) = 1 THEN UpperCh(s)
    ELSE Upper(SubSeq(s, 1, Len(s) \div 2)) \o Upper(SubSeq(s, Len(s) \div 2 + 1, Len(s)))

\* str.lower()
LowerOf == [c \in CharsOf(UpperChars) |->
              Ch(LowerChars, CHOOSE i \in 1..Len(UpperChars) : Ch(UpperChars, i) = c)]
LowerCh(c) == IF c \in DOMAIN LowerOf THEN LowerOf[c] ELSE c

RECURSIVE Lower(_)
Lower(s) ==
    IF Len(s) = 0 THEN ""
    ELSE IF Len(s) = 1 THEN LowerCh(s)
    ELSE Lower(SubSeq(s, 1, Len(s) \div 2)) \o Lower(SubSeq(s, Len(s) \div 2 + 1, Len(s)))

Min(a, b) == IF a <= b THEN a ELSE b

\* "v = x; ..." : the value x under the name the operator F gives it
Bind(x, F(_)) == F(x)

\* the elements of a list
Range(seq) == {seq[i] : i \in 1..Len(seq)}

\* smallest index j in i..Len(s) with P(j), or 0
MinOrZero(S) == IF S = {} THEN 0 ELSE CHOOSE j \in S : \A k \in S : j <= k
FirstIdx(s, i, P(_)) ==
    IF \E j \in i..Len(s) : P(j)
    THEN CHOOSE j \in i..Len(s) : P(j) /\ \A k \in i..(j - 1) : ~P(k)
    ELSE 0

\* str.strip()
RECURSIVE LStrip(_)
LStrip(s) == IF s # "" /\ Head(s) \in WS THEN LStrip(Tail(s)) ELSE s
RECURSIVE RStrip(_)
RStrip(s) ==
    IF s # "" /\ Ch(s, Len(s)) \in WS THEN RStrip(SubSeq(s, 1, Len(s) - 1)) ELSE s
Strip(s) == RStrip(LStrip(s))

\* all texts over alphabet A of length at most n
RECURSIVE Texts(_, _)
Texts(A, n) ==
    IF n = 0 THEN {""}
    ELSE LET T == Texts(A, n - 1) IN T \cup {t \o c : t \in T, c \in A}

-----------------------------------------------------------------------------
(* Comment stripping and normalization: re.sub passes of utils.normalize_sql, *)
(* LineageAnalyzer._normalize_sql and extract_sql_statements                 *)

\* end of the line holding position i: index of the next "\n", or Len(s)+1
EndOfLine(s, i) ==
    LET j == FirstIdx(s, i, LAMBDA k : Ch(s, k) = "\n")
    IN IF j = 0 THEN Len(s) + 1 ELSE j

\* index of the first "*/" at or after j, or 0
CloseAt(s, j) ==
    FirstIdx(s, j, LAMBDA k : k < Len(s) /\ Ch(s, k) = "*" /\ Ch(s, k + 1) = "/")

\* re.sub(r'--.*?$', repl, s, flags=re.MULTILINE)
RECURSIVE SubLineComments(_, _, _)
SubLineComments(s, i, repl) ==
    LET j == FirstIdx(s, i, LAMBDA k : k < Len(s) /\ Ch(s, k) = "-" /\ Ch(s, k + 1) = "-")
    IN IF j = 0 THEN SubSeq(s, i, Len(s))
       ELSE SubSeq(s, i, j - 1) \o repl \o SubLineComments(s, EndOfLine(s, j), repl)

\* re.sub(r'/\*.*?\*/', repl, s, flags=re.DOTALL)
RECURSIVE SubBlockComments(_, _, _)
SubBlockComments(s, i, repl) ==
    LET j == FirstIdx(s, i, LAMBDA k : /\ k < Len(s) /\ Ch(s, k) = "/" /\ Ch(s, k + 1) = "*"
                                      /\ CloseAt(s, k + 2) # 0)
    IN IF j = 0 THEN SubSeq(s, i, Len(s))
       ELSE SubSeq(s, i, j - 1) \o repl \o SubBlockComments(s, CloseAt(s, j + 2) + 2, repl)

\* re.sub(r'--.*?$', repl, s) without re.MULTILINE: $ is the end of the text (or
\* the position before a final newline), so only the last line can match
RECURSIVE SubLineCommentsLastLine(_, _, _)
SubLineCommentsLastLine(s, i, repl) ==
    LET j == FirstIdx(s, i, LAMBDA k : /\ k < Len(s) /\ Ch(s, k) = "-" /\ Ch(s, k + 1) = "-"
                                      /\ EndOfLine(s, k) >= Len(s))
    IN IF j = 0 THEN SubSeq(s, i, Len(s))
       ELSE SubSeq(s, i, j - 1) \o repl \o SubLineCommentsLastLine(s, EndOfLine(s, j), repl)

\* a plausible slip: the MULTILINE flag of the line-comment pass forgotten
RemoveCommentsLastLine(s) ==
    SubBlockComments(SubLineCommentsLastLine(s, 1, " "), 1, " ")

\* a plausible slip: a comment replaced by nothing instead of by a blank
RemoveCommentsJoining(s) == SubBlockComments(SubLineComments(s, 1, ""), 1, "")

\* the two comment passes, line comments first
RemoveComments(s) == SubBlockComments(SubLineComments(s, 1, " "), 1, " ")

\* re.sub(r'\s+', ' ', s)
RECURSIVE CollapseWhitespace(_, _)
CollapseWhitespace(s, i) ==
    LET b == FirstIdx(s, i, LAMBDA k : Ch(s, k) \in WS)
        j == FirstIdx(s, b, LAMBDA k : Ch(s, k) \notin WS)
    IN IF b = 0 THEN SubSeq(s, i, Len(s))
       ELSE SubSeq(s, i, b - 1) \o " " \o (IF j = 0 THEN "" ELSE CollapseWhitespace(s, j))

\* utils.normalize_sql
normalize_sql(text) == Strip(CollapseWhitespace(RemoveComments(text), 1))

\* LineageAnalyzer._normalize_sql
_normalize_sql(text) == Strip(CollapseWhitespace(RemoveComments(text), 1))

-----------------------------------------------------------------------------
(* MetadataStore (metadata.py): the registry {db: {table: {column: properties}}} *)
(* and its mutators, as functions from store to store                          *)

EmptyDict == [x \in {} |-> x]

\* d[k] = v
Put(d, k, v) == [x \in DOMAIN d \cup {k} |-> IF x = k THEN v ELSE d[x]]

\* the reserved per-table slot
TableProps == "_table_properties"

NumDots(s) == Cardinality({i \in 1..Len(s) : Ch(s, i) = "."})

FirstDot(s) == FirstIdx(s, 1, LAMBDA k : Ch(s, k) = ".")

\* the name split at its first dot whatever the number of segments, as
\* table_name.split('.', 1) would
QualifiedAtFirstDot(table_name, database_name) ==
    IF NumDots(table_name) >= 1 /\ database_name = ""
    THEN [db |-> SubSeq(table_name, 1, FirstDot(table_name) - 1),
          table |-> SubSeq(table_name, FirstDot(table_name) + 1, Len(table_name))]
    ELSE [db |-> database_name, table |-> table_name]

\* "if '.' in table_name and not database_name: parts = table_name.split('.');
\*  if len(parts) == 2: database_name, table_name = parts"
Qualified(table_name, database_name) ==
    IF NumDots(table_name) >= 1 /\ database_name = "" /\ NumDots(table_name) = 1
    THEN [db |-> SubSeq(table_name, 1, FirstDot(table_name) - 1),
          table |-> SubSeq(table_name, FirstDot(table_name) + 1, Len(table_name))]
    ELSE [db |-> database_name, table |-> table_name]

\* "if not database_name: database_name = 'default'"
OrDefault(database_name) == IF database_name = "" THEN "default" ELSE database_name

\* add_database that empties a database it already holds
add_database_resets(md, database_name) == Put(md, database_name, EmptyDict)

add_database(md, database_name) ==
    IF database_name \notin DOMAIN md THEN Put(md, database_name, EmptyDict) ELSE md

\* self.metadata[db][table] = entry
PutTable(md, db, table, entry) == Put(md, db, Put(md[db], table, entry))

\* self.metadata[db][table][key] = value
PutEntry(md, db, table, key, value) ==
    PutTable(md, db, table, Put(md[db][table], key, value))

\* the table is created as a bare dict, the reserved slot left out
EnsureTableWithoutSlot(md, db, table) ==
    IF table \notin DOMAIN md[db] THEN PutTable(md, db, table, EmptyDict) ELSE md

\* lines 33-36: the table is created, with its reserved slot, only when absent
EnsureTable(md, db, table) ==
    IF table \notin DOMAIN md[db]
    THEN PutTable(md, db, table, Put(EmptyDict, TableProps, EmptyDict))
    ELSE md

\* the table entry is created afresh on every call
ResetTable(md, db, table) ==
    PutTable(md, db, table, Put(EmptyDict, TableProps, EmptyDict))

\* lines 80-85, on a store that holds the table
SetTableProps(md, db, table, description) ==
    LET slot == IF TableProps \in DOMAIN md[db][table]
                THEN md[db][table][TableProps]
                ELSE EmptyDict
    IN PutEntry(md, db, table, TableProps, Put(slot, "description", description))

RECURSIVE add_table(_, _, _, _)

set_table_description(md, table_name, description, database_name) ==
    LET q  == Qualified(table_name, database_name)
        db == OrDefault(q.db)
    IN SetTableProps(add_table(md, q.table, db, ""), db, q.table, description)

\* add_table with the existence test of lines 33-36 dropped
add_table_resets(md, table_name, database_name, description) ==
    LET q   == Qualified(table_name, database_name)
        db  == OrDefault(q.db)
    IN IF description # ""
       THEN set_table_description(ResetTable(add_database(md, db), db, q.table),
                                  q.table, description, db)
       ELSE ResetTable(add_database(md, db), db, q.table)

add_table(md, table_name, database_name, description) ==
    LET q   == Qualified(table_name, database_name)
        db  == OrDefault(q.db)
    IN IF description # ""
       THEN set_table_description(EnsureTable(add_database(md, db), db, q.table),
                                  q.table, description, db)
       ELSE EnsureTable(add_database(md, db), db, q.table)

\* properties = None is the empty bag (lines 58-59)
add_column(md, column_name, table_name, database_name, properties, description) ==
    LET q == Qualified(table_name, database_name)
    IN PutEntry(add_table(md, q.table, q.db, ""), OrDefault(q.db), q.table,
                column_name,
                IF description # ""
                THEN Put(properties, "description", description)
                ELSE properties)

column_exists(md, table_name, column_name, database_name) ==
    LET q  == Qualified(table_name, database_name)
        db == OrDefault(q.db)
    IN /\ db \in DOMAIN md
       /\ q.table \in DOMAIN md[db]
       /\ column_name \in DOMAIN md[db][q.table]

\* dict.get(key, '')
GetOr(d, k) == IF k \in DOMAIN d THEN d[k] ELSE ""

get_table_description(md, table_name, database_name) ==
    LET q  == Qualified(table_name, database_name)
        db == OrDefault(q.db)
    IN IF /\ db \in DOMAIN md
          /\ q.table \in DOMAIN md[db]
          /\ TableProps \in DOMAIN md[db][q.table]
       THEN GetOr(md[db][q.table][TableProps], "description")
       ELSE ""

get_column_description(md, column_name, table_name, database_name) ==
    LET q  == Qualified(table_name, database_name)
        db == OrDefault(q.db)
    IN IF column_exists(md, q.table, column_name, db)
       THEN GetOr(md[db][q.table][column_name], "description")
       ELSE ""

\* line 103, on a store that holds the column
SetColumnProp(md, db, table, column_name, description) ==
    PutEntry(md, db, table, column_name,
             Put(md[db][table][column_name], "description", description))

set_column_description(md, column_name, table_name, description, database_name) ==
    LET q   == Qualified(table_name, database_name)
        db  == OrDefault(q.db)
    IN SetColumnProp(IF ~column_exists(md, q.table, column_name, db)
                     THEN add_column(md, column_name, q.table, db, EmptyDict, "")
                     ELSE md,
                     db, q.table, column_name, description)

\* the keys of a dict in iteration order (one fixed order per key set)
RECURSIVE KeySeq(_)
KeySeq(S) ==
    IF S = {} THEN <<>>
    ELSE LET k == CHOOSE x \in S : TRUE IN <<k>> \o KeySeq(S \ {k})

\* dict.items()
Items(d) == LET ks == KeySeq(DOMAIN d) IN [i \in 1..Len(ks) |-> <<ks[i], d[ks[i]]>>]

\* list(self.metadata[db][table].keys()), or [] for an unknown table
get_columns(md, table_name, database_name) ==
    LET q  == Qualified(table_name, database_name)
        db == OrDefault(q.db)
    IN IF db \in DOMAIN md /\ q.table \in DOMAIN md[db]
       THEN KeySeq(DOMAIN md[db][q.table])
       ELSE <<>>

\* json.dump(self.metadata): the document as nested lists of <<key, value>>
\* members, property values being strings (lines 410-416)
_export_metadata_to_json(md) ==
    LET JProps(props) == Items(props)
        JCols(cols)   == LET it == Items(cols)
                         IN [i \in 1..Len(it) |-> <<it[i][1], JProps(it[i][2])>>]
        JTabs(tabs)   == LET it == Items(tabs)
                         IN [i \in 1..Len(it) |-> <<it[i][1], JCols(it[i][2])>>]
        it == Items(md)
    IN [i \in 1..Len(it) |-> <<it[i][1], JTabs(it[i][2])>>]

\* the dict json.load builds from the members of an object (a later member wins)
RECURSIVE DictOf(_)
DictOf(members) ==
    IF members = <<>> THEN EmptyDict
    ELSE LET n == Len(members)
         IN Put(DictOf(SubSeq(members, 1, n - 1)), members[n][1], members[n][2])

\* the import passes over the reserved slot of each table, as get_columns would
RECURSIVE ImportColumnsSkippingSlot(_, _, _, _, _)
ImportColumnsSkippingSlot(md, db_name, table_name, columns, i) ==
    IF i > Len(columns) THEN md
    ELSE ImportColumnsSkippingSlot(
            IF columns[i][1] = TableProps THEN md
            ELSE add_column(md, columns[i][1], table_name, db_name,
                            DictOf(columns[i][2]), ""),
            db_name, table_name, columns, i + 1)

RECURSIVE ImportColumns(_, _, _, _, _)

\* "for column_name, properties in columns.items(): self.add_column(...)"
ImportColumns(md, db_name, table_name, columns, i) ==
    IF i > Len(columns) THEN md
    ELSE ImportColumns(
            add_column(md, columns[i][1], table_name, db_name, DictOf(columns[i][2]), ""),
            db_name, table_name, columns, i + 1)

\* "for table_name, columns in tables.items(): self.add_table(table_name, db_name)"
RECURSIVE ImportTables(_, _, _, _)
ImportTables(md, db_name, tables, i) ==
    IF i > Len(tables) THEN md
    ELSE ImportTables(
            ImportColumns(add_table(md, tables[i][1], db_name, ""),
                          db_name, tables[i][1], tables[i][2], 1),
            db_name, tables, i + 1)

\* "for db_name, tables in data.items(): self.add_database(db_name)" (lines
\* 189-194, and the same loop of process_pasted_metadata, lines 272-278)
RECURSIVE ImportDatabases(_, _, _)
ImportDatabases(md, data, i) ==
    IF i > Len(data) THEN md
    ELSE ImportDatabases(
            ImportTables(add_database(md, data[i][1]), data[i][1], data[i][2], 1),
            data, i + 1)

_import_metadata_from_json_file(md, doc) == ImportDatabases(md, doc, 1)

\* JSON import of any text.  What json.load makes of the text is a value: an
\* object with its members in order (keys distinct), null, another value
\* without .items() (a number, a string, a list), or nothing when the text is
\* not JSON (JSONDecodeError)
JObject(members) == [type |-> "object", members |-> members]
JNull    == [type |-> "null", members |-> <<>>]
JScalar  == [type |-> "scalar", members |-> <<>>]
JInvalid == [type |-> "invalid", members |-> <<>>]

\* the properties argument add_column receives for a member's value: a dict of
\* strings, {} for null (lines 58-59), any other value as it is
PropertiesOf(v) ==
    IF v.type = "object" THEN DictOf(v.members)
    ELSE IF v.type = "null" THEN EmptyDict
    ELSE v

\* "for column_name, properties in columns.items(): self.add_column(...)"
RECURSIVE LoadColumns(_, _, _, _, _)
LoadColumns(md, db_name, table_name, columns, i) ==
    IF i > Len(columns) THEN md
    ELSE LoadColumns(add_column(md, columns[i][1], table_name, db_name,
                                PropertiesOf(columns[i][2]), ""),
                     db_name, table_name, columns, i + 1)

\* "for table_name, columns in tables.items(): self.add_table(...)": a columns
\* value without .items() raises AttributeError after the table was added
RECURSIVE LoadTables(_, _, _, _)
LoadTables(md, db_name, tables, i) ==
    IF i > Len(tables) THEN [md |-> md, error |-> "none"]
    ELSE IF tables[i][2].type # "object"
         THEN [md |-> add_table(md, tables[i][1], db_name, ""), error |-> "attribute"]
    ELSE LoadTables(LoadColumns(add_table(md, tables[i][1], db_name, ""),
                                db_name, tables[i][1], tables[i][2].members, 1),
                    db_name, tables, i + 1)

\* "for db_name, tables in data.items(): self.add_database(db_name)": a tables
\* value without .items() raises AttributeError after the database was added
RECURSIVE LoadDatabases(_, _, _)
LoadDatabases(md, data, i) ==
    IF i > Len(data) THEN [md |-> md, error |-> "none"]
    ELSE IF data[i][2].type # "object"
         THEN [md |-> add_database(md, data[i][1]), error |-> "attribute"]
    ELSE Bind(LoadTables(add_database(md, data[i][1]), data[i][1], data[i][2].members, 1),
              LAMBDA r : IF r.error # "none" THEN r
                         ELSE LoadDatabases(r.md, data, i + 1))

\* json.load / json.loads, then the three loops
LoadJson(md, v) ==
    IF v.type = "invalid" THEN [md |-> md, error |-> "decode"]
    ELSE IF v.type # "object" THEN [md |-> md, error |-> "attribute"]
    ELSE LoadDatabases(md, v.members, 1)

\* import_metadata_from_file on a .json file: "except Exception" reports
\* every error, nothing is raised
import_metadata_from_json(md, v) ==
    [md |-> LoadJson(md, v).md,
     reported |-> LoadJson(md, v).error # "none",
     raised |-> FALSE]

\* process_pasted_metadata(text, "json"): only json.JSONDecodeError is caught
process_pasted_json(md, v) ==
    [md |-> LoadJson(md, v).md,
     reported |-> LoadJson(md, v).error = "decode",
     raised |-> LoadJson(md, v).error = "attribute"]

\* CSV import (import_metadata_from_csv, and the csv branch of
\* process_pasted_metadata): a document is what csv.DictReader reads, the
\* header's field names (none for an empty text) and the rows' value lists,
\* none longer than the header

\* required_fields
RequiredFields == <<"database_name", "table_name", "column_name">>

\* None as a dict key (the column of a row that ends before its column_name)
NoneKey == "None"

\* the position of a field in a row: the last one of that name in the header
FieldIndex(header, key) ==
    IF \E i \in 1..Len(header) : header[i] = key
    THEN CHOOSE i \in 1..Len(header) :
            header[i] = key /\ \A j \in (i + 1)..Len(header) : header[j] # key
    ELSE 0

\* row[key] is a string, not None (a row shorter than the header has None)
HasField(header, values, key) ==
    FieldIndex(header, key) \in 1..Len(values)

\* row[key] when it is a string
Field(header, values, key) == values[FieldIndex(header, key)]

\* "properties[key] = row[key]" for the non-required keys with a non-empty value
RowProperties(header, values) ==
    [key \in {header[i] : i \in {j \in 1..Len(header) :
                  /\ header[j] \notin Range(RequiredFields)
                  /\ HasField(header, values, header[j])
                  /\ Field(header, values, header[j]) # ""}}
       |-> Field(header, values, key)]

\* one row: add_column(column_name, table_name, db_name, properties)
ImportCsvRow(md, header, values) ==
    add_column(md,
               IF HasField(header, values, "column_name")
               THEN Field(header, values, "column_name") ELSE NoneKey,
               Field(header, values, "table_name"),
               IF HasField(header, values, "database_name")
                  /\ Field(header, values, "database_name") # ""
               THEN Field(header, values, "database_name") ELSE "default",
               RowProperties(header, values), "")

\* "for row in reader": a row without a table_name makes add_column raise on
\* "'.' in table_name", which ends the loop with the earlier rows imported
RECURSIVE ImportCsvRows(_, _, _, _)
ImportCsvRows(md, header, rows, i) ==
    IF i > Len(rows) THEN [md |-> md, error |-> FALSE]
    ELSE IF ~HasField(header, rows[i], "table_name") THEN [md |-> md, error |-> TRUE]
    ELSE ImportCsvRows(ImportCsvRow(md, header, rows[i]), header, rows, i + 1)

\* only the first required field is looked for in the header
MissingFieldsFirstOnly(header) ==
    IF RequiredFields[1] \notin Range(header) THEN {RequiredFields[1]} ELSE {}

\* missing_fields
MissingFields(header) ==
    {RequiredFields[i] : i \in {j \in 1..Len(RequiredFields) :
                                  RequiredFields[j] \notin Range(header)}}

\* the body of the try block: the header test, then the rows
ImportCsvDocument(md, doc) ==
    IF MissingFields(doc.header) # {} THEN [md |-> md, error |-> TRUE]
    ELSE ImportCsvRows(md, doc.header, doc.rows, 1)

\* import_metadata_from_csv: "except Exception" reports, nothing is raised
import_metadata_from_csv(md, doc) ==
    [md |-> ImportCsvDocument(md, doc).md,
     reported |-> ImportCsvDocument(md, doc).error,
     raised |-> FALSE]

\* process_pasted_metadata(text, "csv")
process_pasted_csv(md, doc) ==
    [md |-> ImportCsvDocument(md, doc).md,
     reported |-> ImportCsvDocument(md, doc).error,
     raised |-> FALSE]

-----------------------------------------------------------------------------
(* Regular-expression matching of analyzer.py, by what each pattern accepts *)

\* first index at or after i whose character fails P, Len(s)+1 when none does
SkipWhile(s, i, P(_)) ==
    Bind(FirstIdx(s, i, LAMBDA k : ~P(Ch(s, k))),
         LAMBDA j : IF j = 0 THEN Len(s) + 1 ELSE j)

\* \s* from i
SkipWS(s, i) == SkipWhile(s, i, LAMBDA c : c \in WS)

\* a literal, re.IGNORECASE (lit in capitals)
MatchCI(s, i, lit) ==
    /\ i >= 1 /\ i + Len(lit) - 1 <= Len(s)
    /\ UpperCh(Ch(s, i)) = Ch(lit, 1)
    /\ Upper(SubSeq(s, i, i + Len(lit) - 1)) = lit

\* "KW\s+" at p: the index after it, or 0 (also when p = 0: nothing matched before)
AfterKw(s, p, kw) ==
    IF p # 0 /\ MatchCI(s, p, kw)
    THEN Bind(SkipWS(s, p + Len(kw)), LAMBDA q : IF q > p + Len(kw) THEN q ELSE 0)
    ELSE 0

\* end of "[^\s<stops>]+" from p: the index after it (p itself when it is empty)
TokenEnd(s, p, stops) == SkipWhile(s, p, LAMBDA c : c \notin WS /\ c \notin stops)

\* the text "([^\s<stops>]+)" captures at p, "" when p = 0 or nothing matches
Token(s, p, stops) ==
    IF p = 0 THEN ""
    ELSE Bind(TokenEnd(s, p, stops), LAMBDA e : IF e = p THEN "" ELSE SubSeq(s, p, e - 1))

\* the first non-empty text of a sequence, "" when there is none
FirstNonEmpty(ts) ==
    Bind(MinOrZero({j \in 1..Len(ts) : ts[j] # ""}),
         LAMBDA k : IF k = 0 THEN "" ELSE ts[k])

\* re.search: the capture at the leftmost index where the pattern matches
Search(s, CaptureAt(_)) ==
    Bind(FirstIdx(s, 1, LAMBDA k : CaptureAt(k) # ""),
         LAMBDA i : IF i = 0 THEN "" ELSE CaptureAt(i))

\* r'INSERT\s+INTO\s+([^\s(]+)' at i
InsertIntoAt(s, i) == Token(s, AfterKw(s, AfterKw(s, i, "INSERT"), "INTO"), {"("})

\* "(?:OR\s+REPLACE\s+)?" at p, taken
OrReplace(s, p) == AfterKw(s, AfterKw(s, p, "OR"), "REPLACE")

\* r'(?:TEMP|TEMPORARY\s+)?TABLE\s+([^\s(]+)' at p: TEMP, then TEMPORARY and
\* blanks, then neither
TableAt(s, p) ==
    IF p = 0 THEN ""
    ELSE FirstNonEmpty(<<
            IF MatchCI(s, p, "TEMP")
            THEN Token(s, AfterKw(s, p + 4, "TABLE"), {"("}) ELSE "",
            Token(s, AfterKw(s, AfterKw(s, p, "TEMPORARY"), "TABLE"), {"("}),
            Token(s, AfterKw(s, p, "TABLE"), {"("}) >>)

\* r'CREATE\s+(?:OR\s+REPLACE\s+)?(?:TEMP|TEMPORARY\s+)?TABLE\s+([^\s(]+)' at i
CreateTableAt(s, i) ==
    Bind(AfterKw(s, i, "CREATE"),
         LAMBDA p : FirstNonEmpty(<< TableAt(s, OrReplace(s, p)), TableAt(s, p) >>))

\* r'CREATE\s+(?:OR\s+REPLACE\s+)?VIEW\s+([^\s(]+)' at i
CreateViewAt(s, i) ==
    Bind(AfterKw(s, i, "CREATE"),
         LAMBDA p : FirstNonEmpty(<<
                        Token(s, AfterKw(s, OrReplace(s, p), "VIEW"), {"("}),
                        Token(s, AfterKw(s, p, "VIEW"), {"("}) >>))

\* LineageAnalyzer._extract_target_table
_extract_target_table(s) ==
    FirstNonEmpty(<< Search(s, LAMBDA i : InsertIntoAt(s, i)),
                     Search(s, LAMBDA i : CreateTableAt(s, i)),
                     Search(s, LAMBDA i : CreateViewAt(s, i)),
                     "Unknown" >>)

\* the index after a capture that starts at p
IndexAfter(s, capture, p) == p + Len(capture)

\* r'KW\s+([^\s,;()]+)' at k: the capture, "" without a match
TableNameAt(s, k, kw) == Token(s, AfterKw(s, k, kw), {",", ";", "(", ")"})

\* re.finditer(r'KW\s+([^\s,;()]+)'): the captures of the successive matches
RECURSIVE FindAllAfter(_, _, _)
FindAllAfter(s, i, kw) ==
    Bind(FirstIdx(s, i, LAMBDA k : TableNameAt(s, k, kw) # ""),
         LAMBDA m :
            IF m = 0 THEN <<>>
            ELSE Bind(TableNameAt(s, m, kw),
                      LAMBDA name :
                         <<name>> \o FindAllAfter(
                                        s, IndexAfter(s, name, AfterKw(s, m, kw)), kw)))

\* LineageAnalyzer._extract_source_tables: the FROM tables, then the JOIN tables
_extract_source_tables(s) == FindAllAfter(s, 1, "FROM") \o FindAllAfter(s, 1, "JOIN")

\* s.find(sub) >= 0
Contains(s, sub) ==
    \E i \in 1..(Len(s) - Len(sub) + 1) : SubSeq(s, i, i + Len(sub) - 1) = sub

\* index of the first character c at or after i, or 0
IndexOf(s, i, c) == FirstIdx(s, i, LAMBDA k : Ch(s, k) = c)

\* "\(([^)]+)\)" at open: the capture, "" without a match
ParenthesizedAt(s, open) ==
    IF open > Len(s) \/ Ch(s, open) # "(" THEN ""
    ELSE Bind(IndexOf(s, open + 1, ")"),
              LAMBDA close : IF close <= open + 1 THEN ""
                             ELSE SubSeq(s, open + 1, close - 1))

\* r'INSERT\s+INTO\s+[^\s(]+\s*\(([^)]+)\)' at i: the capture, "" without a match
InsertColsAt(s, i) ==
    Bind(AfterKw(s, AfterKw(s, i, "INSERT"), "INTO"),
         LAMBDA p :
            IF p = 0 THEN ""
            ELSE Bind(TokenEnd(s, p, {"("}),
                      LAMBDA e : IF e = p THEN "" ELSE ParenthesizedAt(s, SkipWS(s, e))))

\* "\s+FROM" at p
BlankThenFrom(s, p) ==
    p <= Len(s) /\ Ch(s, p) \in WS /\ MatchCI(s, SkipWS(s, p), "FROM")

\* "(.+?)\s+FROM" with the group starting at g: the lazy group, "" without a match
LazyUntilFrom(s, g) ==
    Bind(FirstIdx(s, g, LAMBDA k : BlankThenFrom(s, k + 1)),
         LAMBDA e : IF e = 0 THEN ""
                    ELSE Bind(SubSeq(s, g, e),
                              LAMBDA group : IF IndexOf(group, 1, "\n") # 0 THEN ""
                                             ELSE group))

\* r'SELECT\s+(.+?)\s+FROM' at i: the blanks after SELECT are given back one by
\* one until the rest matches
SelectListAt(s, i) ==
    Bind(AfterKw(s, i, "SELECT"),
         LAMBDA g : IF g = 0 THEN ""
                    ELSE FirstNonEmpty([k \in 1..(g - (i + 6)) |->
                                            LazyUntilFrom(s, g + 1 - k)]))

\* the loops of lines 94-114 and 129-149: split on the commas outside parentheses
RECURSIVE SplitTopLevel(_, _, _, _)
SplitTopLevel(text, i, current, level) ==
    IF i > Len(text)
    THEN IF current # "" THEN <<Strip(current)>> ELSE <<>>
    ELSE Bind(Ch(text, i),
              LAMBDA char :
                 IF char = "("
                 THEN SplitTopLevel(text, i + 1, current \o char, level + 1)
                 ELSE IF char = ")"
                 THEN SplitTopLevel(text, i + 1, current \o char, level - 1)
                 ELSE IF char = "," /\ level = 0
                 THEN <<Strip(current)>> \o SplitTopLevel(text, i + 1, "", level)
                 ELSE \* the characters simply appended, up to the next other one
                      Bind(SkipWhile(text, i + 1, LAMBDA c : c \notin {"(", ")", ","}),
                           LAMBDA j : SplitTopLevel(text, j,
                                                    current \o SubSeq(text, i, j - 1),
                                                    level)))

\* [col.strip() for col in text.split(',')]
RECURSIVE SplitCommas(_, _, _)
SplitCommas(text, i, current) ==
    IF i > Len(text) THEN <<Strip(current)>>
    ELSE IF Ch(text, i) = ","
         THEN <<Strip(current)>> \o SplitCommas(text, i + 1, "")
         ELSE SplitCommas(text, i + 1, current \o Ch(text, i))

\* str.startswith(prefix)
StartsWith(s, prefix) == Len(s) >= Len(prefix) /\ SubSeq(s, 1, Len(prefix)) = prefix

\* SQLComponentExtractor.extract_query_type: the first prefix of the stripped,
\* upper-cased text that fits
extract_query_type(text) ==
    Bind(Upper(Strip(text)),
         LAMBDA u :
            IF StartsWith(u, "SELECT") THEN "SELECT"
            ELSE IF StartsWith(u, "INSERT") THEN "INSERT"
            ELSE IF StartsWith(u, "UPDATE") THEN "UPDATE"
            ELSE IF StartsWith(u, "DELETE") THEN "DELETE"
            ELSE IF StartsWith(u, "CREATE TABLE") THEN "CREATE TABLE"
            ELSE IF StartsWith(u, "CREATE VIEW") THEN "CREATE VIEW"
            ELSE IF StartsWith(u, "CREATE PROCEDURE") \/ StartsWith(u, "CREATE FUNCTION")
            THEN "CREATE PROCEDURE"
            ELSE IF StartsWith(u, "ALTER") THEN "ALTER"
            ELSE IF StartsWith(u, "DROP") THEN "DROP"
            ELSE "UNKNOWN")

NoParams == [capture |-> "", end |-> 0]

\* r'[^\s(]+\s*\(([^)]+)\)' at p: the capture and the index after the match
ParamsAfterName(s, p) ==
    IF p = 0 THEN NoParams
    ELSE Bind(TokenEnd(s, p, {"("}),
              LAMBDA e :
                IF e = p \/ ParenthesizedAt(s, SkipWS(s, e)) = "" THEN NoParams
                ELSE [capture |-> ParenthesizedAt(s, SkipWS(s, e)),
                      end |-> IndexOf(s, SkipWS(s, e) + 1, ")") + 1])

\* r'CREATE\s+(?:OR\s+REPLACE\s+)?PROCEDURE\s+[^\s(]+\s*\(([^)]+)\)' at i
CreateProcedureAt(s, i) ==
    Bind(AfterKw(s, i, "CREATE"),
         LAMBDA p :
            IF ParamsAfterName(s, AfterKw(s, OrReplace(s, p), "PROCEDURE")) # NoParams
            THEN ParamsAfterName(s, AfterKw(s, OrReplace(s, p), "PROCEDURE"))
            ELSE ParamsAfterName(s, AfterKw(s, p, "PROCEDURE")))

\* re.search(r'\bWORD\b', param, re.IGNORECASE)
HasWordCI(param, word) ==
    \E i \in 1..Len(param) :
        /\ MatchCI(param, i, word)
        /\ i = 1 \/ ~IsWord(Ch(param, i - 1))
        /\ i + Len(word) > Len(param) \/ ~IsWord(Ch(param, i + Len(word)))

\* lines 161-173: the parameters of one match, each put on its lists
RECURSIVE ClassifyParams(_, _, _)
ClassifyParams(lists, param_list, i) ==
    IF i > Len(param_list) THEN lists
    ELSE Bind(param_list[i],
              LAMBDA param :
                ClassifyParams(
                    IF HasWordCI(param, "IN")
                    THEN [input_params |-> Append(lists.input_params, param),
                          output_params |-> lists.output_params]
                    ELSE IF HasWordCI(param, "OUT")
                    THEN [input_params |-> lists.input_params,
                          output_params |-> Append(lists.output_params, param)]
                    ELSE IF HasWordCI(param, "INOUT")
                    THEN [input_params |-> Append(lists.input_params, param),
                          output_params |-> Append(lists.output_params, param)]
                    ELSE [input_params |-> Append(lists.input_params, param),
                          output_params |-> lists.output_params],
                    param_list, i + 1))

\* lines 154-173: the successive matches of the pattern from index i
RECURSIVE ProcedureMatches(_, _, _)
ProcedureMatches(lists, s, i) ==
    Bind(FirstIdx(s, i, LAMBDA k : CreateProcedureAt(s, k) # NoParams),
         LAMBDA m :
            IF m = 0 THEN lists
            ELSE ProcedureMatches(
                    ClassifyParams(lists, SplitCommas(CreateProcedureAt(s, m).capture, 1, ""), 1),
                    s, CreateProcedureAt(s, m).end))

\* SQLComponentExtractor.extract_stored_procedure_params
extract_stored_procedure_params(text) ==
    ProcedureMatches([input_params |-> <<>>, output_params |-> <<>>], text, 1)

\* end of the word ([a-zA-Z0-9_]+) starting at i: the index after it
WordEnd(s, i) == SkipWhile(s, i, IsWord)

\* r'([a-zA-Z0-9_]+)\.([a-zA-Z0-9_]+)' at i: <<group 1, group 2>>, <<>> otherwise
QualifiedRefAt(s, i) ==
    Bind(WordEnd(s, i),
         LAMBDA j :
            IF j > i /\ j < Len(s) /\ Ch(s, j) = "."
            THEN Bind(WordEnd(s, j + 1),
                      LAMBDA e : IF e > j + 1
                                 THEN <<SubSeq(s, i, j - 1), SubSeq(s, j + 1, e - 1)>>
                                 ELSE <<>>)
            ELSE <<>>)

\* re.search for a pattern with two groups: the groups at the leftmost match
SearchGroups(s, GroupsAt(_)) ==
    Bind(FirstIdx(s, 1, LAMBDA k : GroupsAt(k) # <<>>),
         LAMBDA i : IF i = 0 THEN <<>> ELSE GroupsAt(i))

\* re.search of that pattern
QualifiedRef(s) == SearchGroups(s, LAMBDA i : QualifiedRefAt(s, i))

\* r'([a-zA-Z0-9_]+)\(([^)]+)\)' at i: <<name, arguments>>, <<>> otherwise
FunctionCallAt(s, i) ==
    Bind(WordEnd(s, i),
         LAMBDA j :
            IF j > i
            THEN Bind(ParenthesizedAt(s, j),
                      LAMBDA args : IF args # "" THEN <<SubSeq(s, i, j - 1), args>>
                                    ELSE <<>>)
            ELSE <<>>)

FunctionCall(s) == SearchGroups(s, LAMBDA i : FunctionCallAt(s, i))

\* r'([a-zA-Z0-9_]+)\(' at i: the word, "" without a match
FunctionNameAt(s, i) ==
    Bind(WordEnd(s, i),
         LAMBDA e : IF e > i /\ e <= Len(s) /\ Ch(s, e) = "(" THEN SubSeq(s, i, e - 1)
                    ELSE "")

\* the name of the first word followed by "(", or ""
FunctionName(s) == Search(s, LAMBDA i : FunctionNameAt(s, i))

\* re.match(r'^[a-zA-Z0-9_]+$'): $ is the end of the text or the place before a
\* final newline
IsIdentifier(s) ==
    Bind(WordEnd(s, 1),
         LAMBDA e : e > 1 /\ (e = Len(s) + 1 \/ (e = Len(s) /\ Ch(s, e) = "\n")))

\* "<token>$" from p: the token, "" without a match ($ is the end of the text or
\* the place before a final newline)
LastTokenAt(s, p) ==
    Bind(TokenEnd(s, p, {","}),
         LAMBDA t : IF t > p /\ (t = Len(s) + 1 \/ (t = Len(s) /\ Ch(s, t) = "\n"))
                    THEN SubSeq(s, p, t - 1)
                    ELSE "")

\* r'\s+AS\s+([^\s,]+)$' at e: the alias, "" without a match
AliasAt(s, e) ==
    IF e <= Len(s) /\ Ch(s, e) \in WS
    THEN Bind(AfterKw(s, SkipWS(s, e), "AS"),
              LAMBDA p : IF p = 0 THEN "" ELSE LastTokenAt(s, p))
    ELSE ""

\* the index after the last "\n" before e: where a "." group ending before e
\* can start at the earliest
LineStart(s, e) ==
    IF \E k \in 1..(e - 1) : Ch(s, k) = "\n"
    THEN 1 + CHOOSE k \in 1..(e - 1) :
                /\ Ch(s, k) = "\n"
                /\ \A j \in (k + 1)..(e - 1) : Ch(s, j) # "\n"
    ELSE 1

\* re.search(r'(.*?)\s+AS\s+([^\s,]+)$'): <<group, alias>>, <<>> without a match;
\* the lazy group is the shortest that lets the rest match
Alias(s) ==
    Bind(FirstIdx(s, 1, LAMBDA k : AliasAt(s, k) # ""),
         LAMBDA e : IF e = 0 THEN <<>>
                    ELSE <<SubSeq(s, LineStart(s, e), e - 1), AliasAt(s, e)>>)

-----------------------------------------------------------------------------
(* LineageAnalyzer (analyzer.py): column mappings of one statement.  A source *)
(* descriptor is the string the code returns: "t.c", "t.c (in F)",            *)
(* "Function: F(args)" or the expression itself.                              *)

\* the last table of source_tables that holds the column, or ""
RECURSIVE LastTableWith(_, _, _, _)
LastTableWith(md, source_tables, column_expr, i) ==
    IF i > Len(source_tables) THEN ""
    ELSE IF LastTableWith(md, source_tables, column_expr, i + 1) # ""
         THEN LastTableWith(md, source_tables, column_expr, i + 1)
         ELSE IF column_exists(md, source_tables[i], column_expr, "")
              THEN source_tables[i]
              ELSE ""

\* the first table of source_tables, from index i, that holds the column, or ""
RECURSIVE FirstTableWith(_, _, _, _)
FirstTableWith(md, source_tables, column_expr, i) ==
    IF i > Len(source_tables) THEN ""
    ELSE IF column_exists(md, source_tables[i], column_expr, "")
         THEN source_tables[i]
         ELSE FirstTableWith(md, source_tables, column_expr, i + 1)

\* lines 174-185, given the match of the function-call pattern
FunctionSource(func_name, func_args) ==
    Bind(QualifiedRef(func_args),
         LAMBDA arg_col_match :
            IF arg_col_match # <<>>
            THEN arg_col_match[1] \o "." \o arg_col_match[2] \o " (in " \o func_name \o ")"
            ELSE "Function: " \o func_name \o "(" \o func_args \o ")")

\* lines 187-193: a bare identifier is looked up in the source tables
InferTable(md, column_expr, source_tables) ==
    IF IsIdentifier(column_expr) /\ source_tables # <<>>
    THEN Bind(FirstTableWith(md, source_tables, column_expr, 1),
              LAMBDA table : IF table # "" THEN table \o "." \o column_expr
                             ELSE column_expr)
    ELSE column_expr

\* LineageAnalyzer._extract_column_source
_extract_column_source(md, column_expr, source_tables) ==
    Bind(QualifiedRef(column_expr),
         LAMBDA simple_col_match :
            IF simple_col_match # <<>>
            THEN simple_col_match[1] \o "." \o simple_col_match[2]
            ELSE Bind(FunctionCall(column_expr),
                      LAMBDA func_col_match :
                         IF func_col_match # <<>>
                         THEN FunctionSource(func_col_match[1], func_col_match[2])
                         ELSE InferTable(md, column_expr, source_tables)))

\* lines 202-212: the name of an expression that holds no qualified column
NameOfUnqualified(expr) ==
    Bind(FunctionName(expr),
         LAMBDA func_name :
            IF func_name # "" THEN func_name \o "_result"
            ELSE IF /\ Len(expr) <= MaxDerivedNameLen
                    /\ \A i \in 1..Len(expr) : IsWord(Ch(expr, i))
            THEN expr
            ELSE "derived_column")

\* LineageAnalyzer._derive_column_name
_derive_column_name(expr) ==
    Bind(QualifiedRef(expr),
         LAMBDA simple_col_match :
            IF simple_col_match # <<>> THEN simple_col_match[2]
            ELSE NameOfUnqualified(expr))

\* column_mappings[key] = value on an insertion-ordered dict
SetKey(mappings, key, value) ==
    IF \E k \in 1..Len(mappings) : mappings[k][1] = key
    THEN [k \in 1..Len(mappings) |->
            IF mappings[k][1] = key THEN <<key, value>> ELSE mappings[k]]
    ELSE Append(mappings, <<key, value>>)

\* column_mappings[f"{target_table}.{target_col}"] = [self._extract_column_source(...)]
MapColumn(md, mappings, target_table, target_col, source_col, source_tables) ==
    SetKey(mappings, target_table \o "." \o target_col,
           <<_extract_column_source(md, source_col, source_tables)>>)

\* lines 116-120: targets and sources paired by position
RECURSIVE MapByPosition(_, _, _, _, _, _, _)
MapByPosition(md, mappings, target_table, target_columns, source_columns,
              source_tables, i) ==
    IF i > Len(target_columns) THEN mappings
    ELSE MapByPosition(
            md,
            IF i <= Len(source_columns)
            THEN MapColumn(md, mappings, target_table, target_columns[i],
                           source_columns[i], source_tables)
            ELSE mappings,
            target_table, target_columns, source_columns, source_tables, i + 1)

\* lines 153-163: the entry of one projection, named by its alias or a derived name
MapProjection(md, mappings, target_table, expr, source_tables) ==
    Bind(Alias(expr),
         LAMBDA alias_match :
            IF alias_match # <<>>
            THEN MapColumn(md, mappings, target_table, Strip(alias_match[2]),
                           Strip(alias_match[1]), source_tables)
            ELSE MapColumn(md, mappings, target_table, _derive_column_name(expr),
                           expr, source_tables))

\* lines 152-163: "for expr in column_expressions"
RECURSIVE MapProjections(_, _, _, _, _, _)
MapProjections(md, mappings, target_table, column_expressions, source_tables, i) ==
    IF i > Len(column_expressions) THEN mappings
    ELSE MapProjections(
            md,
            MapProjection(md, mappings, target_table, column_expressions[i], source_tables),
            target_table, column_expressions, source_tables, i + 1)

\* re.search(r'SELECT\s+(.+?)\s+FROM', sql_text, re.IGNORECASE): group 1, or ""
SelectList(s) == Search(s, LAMBDA i : SelectListAt(s, i))

\* lines 83-120: the INSERT branch
MapInsert(md, target_table, insert_cols_match, select_match, source_tables) ==
    IF insert_cols_match # "" /\ select_match # ""
    THEN MapByPosition(md, <<>>, target_table,
                       SplitCommas(insert_cols_match, 1, ""),
                       SplitTopLevel(select_match, 1, "", 0),
                       source_tables, 1)
    ELSE <<>>

\* lines 125-163: the CREATE ... SELECT branch
MapCreate(md, target_table, select_match, source_tables) ==
    IF select_match # ""
    THEN MapProjections(md, <<>>, target_table,
                        SplitTopLevel(select_match, 1, "", 0), source_tables, 1)
    ELSE <<>>

\* lines 90-114 and 125-149: the projection expressions of the statement, the
\* select list split on its top-level commas
ProjectionList(s) == SplitTopLevel(SelectList(s), 1, "", 0)

\* lines 81 and 123: the branch taken, from sql_text.upper()
Branch(upper) ==
    IF Contains(upper, "INSERT INTO") THEN "INSERT"
    ELSE IF Contains(upper, "CREATE") /\ Contains(upper, "SELECT") THEN "CREATE"
    ELSE "none"

\* LineageAnalyzer._extract_column_mappings
_extract_column_mappings(md, s, target_table, source_tables) ==
    Bind(Branch(Upper(s)),
         LAMBDA branch :
            IF branch = "INSERT"
            THEN MapInsert(md, target_table, Search(s, LAMBDA i : InsertColsAt(s, i)),
                           SelectList(s), source_tables)
            ELSE IF branch = "CREATE"
            THEN MapCreate(md, target_table, SelectList(s), source_tables)
            ELSE <<>>)

\* lines 19-25, on the normalized text
AnalyzeNormalized(md, s) ==
    _extract_column_mappings(md, s, _extract_target_table(s), _extract_source_tables(s))

\* LineageAnalyzer.analyze_sql
analyze_sql(md, text) == AnalyzeNormalized(md, _normalize_sql(text))

-----------------------------------------------------------------------------
(* Values of a component that is not running *)

NoCall == [op |-> "none", args |-> <<>>]

IdleStore ==
    /\ metadata = EmptyDict /\ call = NoCall /\ n_ops = 0
    /\ json_doc = <<>> /\ imported = EmptyDict

IdleSplit ==
    /\ sql_file_content = "" /\ sql_content = "" /\ idx = 0
    /\ current_statement = "" /\ in_quote = FALSE /\ quote_char = ""
    /\ statements = <<>> /\ sp_pc = "idle"

IdleNorm == nz_text = "" /\ nz_once = "" /\ nz_twice = "" /\ nz_pc = "idle"

IdleAn ==
    /\ in_kind = "" /\ in_cols = <<>> /\ in_exprs = <<>> /\ sql_text = ""
    /\ column_mappings = <<>> /\ an_pc = "idle"

\* no graph built, no diagram generated
NoGraph == [nodes |-> <<>>, edges |-> <<>>]

IdleGraph ==
    /\ viz_mappings = <<>> /\ graph_data = NoGraph /\ mermaid = NoGraph
    /\ gr_pc = "idle"

\* no statement text written, no extractor called
NoClauseCall == [op |-> "none", result |-> <<>>]

IdleClause == cl_text = "" /\ cl_n = 0 /\ cl_call = NoClauseCall

\* the button was not clicked
IdleLoop ==
    /\ lp_script = "" /\ lp_statements = <<>> /\ lp_i = 0
    /\ lp_pc = "idle" /\ lp_mappings = <<>>

\* a step of one component leaves the others alone
OnlySplit == UNCHANGED <<normVars, anVars, storeVars, graphVars, clauseVars, loopVars>>
OnlyNorm  == UNCHANGED <<splitVars, anVars, storeVars, graphVars, clauseVars, loopVars>>
OnlyAn    == UNCHANGED <<splitVars, normVars, storeVars, graphVars, clauseVars, loopVars>>
OnlyStore == UNCHANGED <<splitVars, normVars, anVars, graphVars, clauseVars, loopVars>>
OnlyGraph == UNCHANGED <<splitVars, normVars, anVars, storeVars, clauseVars, loopVars>>
OnlyClause == UNCHANGED <<splitVars, normVars, anVars, storeVars, graphVars, loopVars>>
\* the loop works on the store and leaves the record of the calls alone
OnlyLoop == UNCHANGED <<splitVars, normVars, anVars, graphVars, clauseVars,
                        call, n_ops, json_doc, imported>>

-----------------------------------------------------------------------------
(* SQLComponentExtractor.extract_sql_statements, one loop iteration per step *)

Quotes == {"'", "\""}

SplitAlphabet == {"a", " ", ";", "'", "\"", "-", "\n"}

SplitExamples ==
    { "INSERT INTO t VALUES ('a;b');",
      "SELECT '--'; SELECT 2;",
      "SELECT \"it's;\" FROM t; SELECT 1",
      "a /* x; */ b; -- c;\n d;",
      "SELECT '/*'; SELECT '*/';",
      "a -/* x */- 'b;'; /* c" }

SplitInputs == Texts(SplitAlphabet, MaxLen) \cup SplitExamples

\* lines 36-38: the statement collected, stripped, joins the list unless blank
WithStatement(found, current) ==
    IF Strip(current) # "" THEN Append(found, Strip(current)) ELSE found

\* lines 21-38: the loop over the characters of sql_content from index i; the
\* characters that neither toggle the literal state nor split are appended up
\* to the next one that does
RECURSIVE SplitLoop(_, _, _, _, _, _)
SplitLoop(content, i, current, quoted, quote, found) ==
    Bind(FirstIdx(content, i,
                  LAMBDA k : IF quoted THEN Ch(content, k) = quote
                             ELSE Ch(content, k) \in Quotes \cup {";"}),
         LAMBDA j :
            IF j = 0
            THEN WithStatement(found, current \o SubSeq(content, i, Len(content)))
            ELSE IF Ch(content, j) = ";"
            THEN SplitLoop(content, j + 1, "", quoted, quote,
                           WithStatement(found, current \o SubSeq(content, i, j - 1)))
            ELSE SplitLoop(content, j + 1, current \o SubSeq(content, i, j),
                           ~quoted, IF ~quoted THEN Ch(content, j) ELSE "", found))

\* SQLComponentExtractor.extract_sql_statements, as one call
extract_sql_statements(text) == SplitLoop(RemoveComments(text), 1, "", FALSE, "", <<>>)

\* lines 12-13 and 16-19: comments removed, loop variables initialised
StripComments ==
    /\ OnlySplit
    /\ sp_pc = "start"
    /\ sql_content' = RemoveComments(sql_file_content)
    /\ idx' = 1
    /\ current_statement' = ""
    /\ in_quote' = FALSE
    /\ quote_char' = ""
    /\ statements' = <<>>
    /\ sp_pc' = "loop"
    /\ UNCHANGED sql_file_content

\* a quote character toggles the literal state whatever literal is open
TogglesOnAnyQuote(char) == char \in Quotes

\* line 22: the quote character opens a literal or closes the one it opened
TogglesQuote(char) == char \in Quotes /\ (~in_quote \/ quote_char = char)

\* lines 22-28
ReadQuote ==
    /\ OnlySplit
    /\ sp_pc = "loop" /\ idx <= Len(sql_content)
    /\ LET char == Ch(sql_content, idx) IN
        /\ TogglesQuote(char)
        /\ in_quote' = ~in_quote
        /\ quote_char' = IF ~in_quote THEN char ELSE ""
        /\ current_statement' = current_statement \o char
    /\ idx' = idx + 1
    /\ UNCHANGED <<sql_file_content, sql_content, statements, sp_pc>>

\* lines 29-32
ReadSemicolon ==
    /\ OnlySplit
    /\ sp_pc = "loop" /\ idx <= Len(sql_content)
    /\ LET char == Ch(sql_content, idx) IN
        /\ ~TogglesQuote(char)
        /\ char = ";" /\ ~in_quote
    /\ statements' = IF Strip(current_statement) # ""
                     THEN Append(statements, Strip(current_statement))
                     ELSE statements
    /\ current_statement' = ""
    /\ idx' = idx + 1
    /\ UNCHANGED <<sql_file_content, sql_content, in_quote, quote_char, sp_pc>>

\* lines 33-34
ReadOther ==
    /\ OnlySplit
    /\ sp_pc = "loop" /\ idx <= Len(sql_content)
    /\ LET char == Ch(sql_content, idx) IN
        /\ ~TogglesQuote(char)
        /\ ~(char = ";" /\ ~in_quote)
        /\ current_statement' = current_statement \o char
    /\ idx' = idx + 1
    /\ UNCHANGED <<sql_file_content, sql_content, in_quote, quote_char,
                   statements, sp_pc>>

\* lines 36-40: the trailing statement, then return
FinishSplit ==
    /\ OnlySplit
    /\ sp_pc = "loop" /\ idx > Len(sql_content)
    /\ statements' = IF Strip(current_statement) # ""
                     THEN Append(statements, Strip(current_statement))
                     ELSE statements
    /\ sp_pc' = "done"
    /\ UNCHANGED <<sql_file_content, sql_content, idx, current_statement,
                   in_quote, quote_char>>

InitSplit ==
    /\ sql_file_content \in SplitInputs
    /\ sql_content = "" /\ idx = 0 /\ current_statement = ""
    /\ in_quote = FALSE /\ quote_char = "" /\ statements = <<>>
    /\ sp_pc = "start"
    /\ IdleNorm /\ IdleAn /\ IdleStore /\ IdleGraph /\ IdleClause /\ IdleLoop

NextSplit ==
    \/ StripComments
    \/ ReadQuote
    \/ ReadSemicolon
    \/ ReadOther
    \/ FinishSplit

SpecSplit == InitSplit /\ [][NextSplit]_vars

-----------------------------------------------------------------------------
(* Normalization applied once and again: utils.normalize_sql and            *)
(* LineageAnalyzer._normalize_sql                                           *)

NormAlphabet == {"a", " ", "\n", "-", "/", "*"}

NormExamples ==
    { "SELECT  a, -- pick a\n b /* and b */ FROM t ;  ",
      "a /* x -- y */ b\n--/* c\n*/ d" }

NormInputs == Texts(NormAlphabet, MaxNormLen) \cup NormExamples

NormalizeUtils ==
    /\ OnlyNorm
    /\ nz_pc = "start"
    /\ nz_once' = normalize_sql(nz_text)
    /\ nz_twice' = normalize_sql(normalize_sql(nz_text))
    /\ nz_pc' = "utils"
    /\ UNCHANGED nz_text

NormalizeAnalyzer ==
    /\ OnlyNorm
    /\ nz_pc = "start"
    /\ nz_once' = _normalize_sql(nz_text)
    /\ nz_twice' = _normalize_sql(_normalize_sql(nz_text))
    /\ nz_pc' = "analyzer"
    /\ UNCHANGED nz_text

InitNorm ==
    /\ nz_text \in NormInputs
    /\ nz_once = "" /\ nz_twice = "" /\ nz_pc = "start"
    /\ IdleSplit /\ IdleAn /\ IdleStore /\ IdleGraph /\ IdleClause /\ IdleLoop

NextNorm ==
    \/ NormalizeUtils
    \/ NormalizeAnalyzer

SpecNorm == InitNorm /\ [][NextNorm]_vars

-----------------------------------------------------------------------------
(* A session on one MetadataStore: calls of its mutators, then an export to  *)
(* JSON and an import of that document into a fresh store                    *)

DbNames   == {"default", "db1"}
DbArgs    == {"", "db1"}
TableArgs == {"t", "db1.t"}
ColArgs   == {"c"}
PropArgs  == {EmptyDict, Put(EmptyDict, "data_type", "int")}
DescArgs  == {"", "d1"}
NewDescs  == {"d1", "d2"}

\* a mutator call of the session; the session ends with the export
Called(op, args) ==
    /\ call.op \notin {"export", "import"}
    /\ n_ops < MaxOps
    /\ n_ops' = n_ops + 1
    /\ call' = [op |-> op, args |-> args]
    /\ UNCHANGED <<json_doc, imported>>
    /\ OnlyStore

AddDatabase ==
    \E db \in DbNames :
        /\ metadata' = add_database(metadata, db)
        /\ Called("add_database", <<db>>)

AddTable ==
    \E t \in TableArgs, db \in DbArgs, desc \in DescArgs :
        /\ metadata' = add_table(metadata, t, db, desc)
        /\ Called("add_table", <<t, db, desc>>)

AddColumn ==
    \E c \in ColArgs, t \in TableArgs, db \in DbArgs, props \in PropArgs,
       desc \in DescArgs :
        /\ metadata' = add_column(metadata, c, t, db, props, desc)
        /\ Called("add_column", <<c, t, db, props, desc>>)

SetTableDescription ==
    \E t \in TableArgs, desc \in NewDescs, db \in DbArgs :
        /\ metadata' = set_table_description(metadata, t, desc, db)
        /\ Called("set_table_description", <<t, desc, db>>)

SetColumnDescription ==
    \E c \in ColArgs, t \in TableArgs, desc \in NewDescs, db \in DbArgs :
        /\ metadata' = set_column_description(metadata, c, t, desc, db)
        /\ Called("set_column_description", <<c, t, desc, db>>)

\* _export_metadata_to_json(file): the document is written
ExportJson ==
    /\ call.op \notin {"export", "import"}
    /\ json_doc' = _export_metadata_to_json(metadata)
    /\ call' = [op |-> "export", args |-> <<>>]
    /\ UNCHANGED <<metadata, n_ops, imported>>
    /\ OnlyStore

\* _import_metadata_from_json_file(file) on a new, empty MetadataStore
ImportJson ==
    /\ call.op = "export"
    /\ imported' = _import_metadata_from_json_file(EmptyDict, json_doc)
    /\ call' = [op |-> "import", args |-> <<>>]
    /\ UNCHANGED <<metadata, n_ops, json_doc>>
    /\ OnlyStore

InitStore ==
    /\ metadata = EmptyDict /\ call = NoCall /\ n_ops = 0
    /\ json_doc = <<>> /\ imported = EmptyDict
    /\ IdleSplit /\ IdleNorm /\ IdleAn /\ IdleGraph /\ IdleClause /\ IdleLoop

NextStore ==
    \/ AddDatabase
    \/ AddTable
    \/ AddColumn
    \/ SetTableDescription
    \/ SetColumnDescription
    \/ ExportJson
    \/ ImportJson

SpecStore == InitStore /\ [][NextStore]_vars

-----------------------------------------------------------------------------
(* A session of calls that name their table in every form the store accepts: *)
(* bare, database.table, three segments, each with and without a database    *)

NameArgs == {"t", "db1.t", "a.b.c"}

NameAddTable ==
    \E t \in NameArgs, db \in DbArgs :
        /\ metadata' = add_table(metadata, t, db, "")
        /\ Called("add_table", <<t, db, "">>)

NameAddColumn ==
    \E t \in NameArgs, db \in DbArgs :
        /\ metadata' = add_column(metadata, "c", t, db, EmptyDict, "")
        /\ Called("add_column", <<"c", t, db, EmptyDict, "">>)

NameSetTableDescription ==
    \E t \in NameArgs, db \in DbArgs :
        /\ metadata' = set_table_description(metadata, t, "d1", db)
        /\ Called("set_table_description", <<t, "d1", db>>)

NameSetColumnDescription ==
    \E t \in NameArgs, db \in DbArgs :
        /\ metadata' = set_column_description(metadata, "c", t, "d2", db)
        /\ Called("set_column_description", <<"c", t, "d2", db>>)

NextNames ==
    \/ NameAddTable
    \/ NameAddColumn
    \/ NameSetTableDescription
    \/ NameSetColumnDescription

SpecNames == InitStore /\ [][NextNames]_vars

-----------------------------------------------------------------------------
(* A session of metadata imports into one MetadataStore: CSV and JSON, from  *)
(* a file and pasted, well-formed and not                                    *)

CsvHeader == <<"database_name", "table_name", "column_name", "data_type">>

CsvDocs ==
    { [header |-> CsvHeader,
       rows |-> << <<"db1", "t", "c", "int">>, <<"", "u", "d", "">> >>],
      [header |-> <<"table_name", "database_name", "column_name">>,
       rows |-> << <<"a.b", "", "c">> >>],
      [header |-> <<"table_name", "column_name">>, rows |-> << <<"t", "c">> >>],
      [header |-> <<"database_name", "table_name", "data_type">>,
       rows |-> << <<"db1", "t", "int">> >>],
      [header |-> <<>>, rows |-> <<>>],
      [header |-> CsvHeader,
       rows |-> << <<"db1", "v", "c", "int">>, <<"db1">>, <<"db1", "w", "d", "x">> >>] }

JsonDocs ==
    { JObject(<< <<"db1", JObject(<< <<"t", JObject(<< <<"c",
                    JObject(<< <<"data_type", "int">> >>)>> >>)>> >>)>> >>),
      JObject(<< <<"default", JObject(<< <<"u", JObject(<< <<"d", JNull>> >>)>> >>)>> >>),
      JInvalid,
      JScalar,
      JObject(<< <<"db2", JScalar>> >>),
      JObject(<< <<"db1", JObject(<< <<"v", JScalar>> >>)>> >>),
      JObject(<< <<"db1", JObject(<< <<"t", JObject(<< <<"c", JObject(<<>>)>> >>)>> >>)>>,
                 <<"db3", JObject(<< <<"w", JNull>> >>)>> >>) }

\* the call is recorded with what became of its errors
Imported(op, doc, result) ==
    /\ n_ops < MaxOps
    /\ n_ops' = n_ops + 1
    /\ metadata' = result.md
    /\ call' = [op |-> op, args |-> <<doc>>,
                reported |-> result.reported, raised |-> result.raised]
    /\ UNCHANGED <<json_doc, imported>>
    /\ OnlyStore

ImportCsvFile ==
    \E doc \in CsvDocs :
        Imported("import_metadata_from_csv", doc, import_metadata_from_csv(metadata, doc))

PasteCsv ==
    \E doc \in CsvDocs :
        Imported("process_pasted_csv", doc, process_pasted_csv(metadata, doc))

ImportJsonFile ==
    \E doc \in JsonDocs :
        Imported("import_metadata_from_json", doc, import_metadata_from_json(metadata, doc))

PasteJson ==
    \E doc \in JsonDocs :
        Imported("process_pasted_json", doc, process_pasted_json(metadata, doc))

NextImport ==
    \/ ImportCsvFile
    \/ PasteCsv
    \/ ImportJsonFile
    \/ PasteJson

SpecImport == InitStore /\ [][NextImport]_vars

-----------------------------------------------------------------------------
(* LineageAnalyzer.analyze_sql on generated statements.  A statement is put   *)
(* together from a kind, a target column list and a projection list, so that  *)
(* what was written is known independently of how the analyzer reads it.      *)

Kinds == {"INSERT", "CREATE VIEW", "CREATE TABLE"}

\* the target columns of a generated INSERT, in the order they are written
TargetColumnNames == <<"a", "b", "c", "d", "e">>

Plain(inner) == [inner |-> inner, as |-> "", alias |-> ""]
Aliased(inner, as, alias) == [inner |-> inner, as |-> as, alias |-> alias]

SumProjection == Plain("SUM(o.amount)")
ExtractProjection == Plain("EXTRACT(YEAR FROM s.d)")

\* the projections a statement is built from: <inner> or <inner> AS <alias>
Projections ==
    { Plain("s.x"), Plain("s.y"), Plain("x"), SumProjection, ExtractProjection,
      Plain("COALESCE(s.x, s.y)"),
      Aliased("a.x", " AS ", "foo"), Aliased("a.y", " as ", "bar") }

ProjectionText(p) == p.inner \o p.as \o p.alias

RECURSIVE Join(_, _)
Join(texts, sep) ==
    IF texts = <<>> THEN ""
    ELSE IF Len(texts) = 1 THEN texts[1]
    ELSE texts[1] \o sep \o Join(Tail(texts), sep)

\* the table a generated statement writes and the table it reads
TargetOf(kind) == IF kind = "INSERT" THEN "t" ELSE "v"
SourceOf(kind) == IF kind = "INSERT" THEN "s" ELSE "a"

\* the text of the statement
Statement(kind, cols, exprs) ==
    LET list == Join([i \in 1..Len(exprs) |-> ProjectionText(exprs[i])], ", ")
    IN IF kind = "INSERT"
       THEN "INSERT INTO t (" \o Join(cols, ",") \o ") SELECT " \o list \o " FROM s"
       ELSE kind \o " v AS SELECT " \o list \o " FROM a"

\* the store the analyzer consults: table s has a column x
AnalyzerStore == add_column(EmptyDict, "x", "s", "", EmptyDict, "")

\* one more target column is written
AddTargetColumn ==
    /\ an_pc = "build" /\ in_kind = "INSERT"
    /\ Len(in_cols) < MaxCols /\ Len(in_cols) < Len(TargetColumnNames)
    /\ in_cols' = Append(in_cols, TargetColumnNames[Len(in_cols) + 1])
    /\ UNCHANGED <<in_kind, in_exprs, sql_text, column_mappings, an_pc>>
    /\ OnlyAn

\* one more projection is written
AddProjection ==
    /\ an_pc = "build" /\ Len(in_exprs) < MaxExprs
    /\ \E p \in Projections : in_exprs' = Append(in_exprs, p)
    /\ UNCHANGED <<in_kind, in_cols, sql_text, column_mappings, an_pc>>
    /\ OnlyAn

\* analyze_sql(sql_text) on the statement written
Analyze ==
    /\ an_pc = "build" /\ in_exprs # <<>>
    /\ in_kind = "INSERT" => in_cols # <<>>
    /\ sql_text' = Statement(in_kind, in_cols, in_exprs)
    /\ column_mappings' = analyze_sql(metadata, sql_text')
    /\ an_pc' = "done"
    /\ UNCHANGED <<in_kind, in_cols, in_exprs>>
    /\ OnlyAn

InitAnalyze ==
    /\ in_kind \in Kinds /\ in_cols = <<>> /\ in_exprs = <<>>
    /\ sql_text = "" /\ column_mappings = <<>> /\ an_pc = "build"
    /\ metadata = AnalyzerStore /\ call = NoCall /\ n_ops = 0
    /\ json_doc = <<>> /\ imported = EmptyDict
    /\ IdleSplit /\ IdleNorm /\ IdleGraph /\ IdleClause /\ IdleLoop

NextAnalyze ==
    \/ AddTargetColumn
    \/ AddProjection
    \/ Analyze

SpecAnalyze == InitAnalyze /\ [][NextAnalyze]_vars

-----------------------------------------------------------------------------
(* The resolver on its own: _extract_column_source on expressions and      *)
(* source-table lists, over a store filled column by column                *)

ResolveTables == {"s", "u"}
ResolveColumns == {"x", "y"}

\* the source tables of a statement, in the order they were found
SourceTableLists == {<<>>, <<"s">>, <<"u">>, <<"s", "u">>, <<"u", "s">>}

ResolveExprs ==
    {"x", "y", "z", TableProps, "o.amount", "SUM(o.amount)", "UPPER(x)",
     "COALESCE(s.x, u.y)", "x + 1"}

\* metadata_store.add_column(column, table) before the analysis
ResolveAddColumn ==
    \E column \in ResolveColumns, table \in ResolveTables :
        /\ n_ops < MaxOps
        /\ n_ops' = n_ops + 1
        /\ metadata' = add_column(metadata, column, table, "", EmptyDict, "")
        /\ call' = [op |-> "add_column", args |-> <<column, table>>, result |-> ""]
        /\ UNCHANGED <<json_doc, imported>>
        /\ OnlyStore

\* analyzer._extract_column_source(column_expr, source_tables)
ResolveSource ==
    \E column_expr \in ResolveExprs, source_tables \in SourceTableLists :
        /\ n_ops < MaxOps
        /\ n_ops' = n_ops + 1
        /\ call' = [op |-> "_extract_column_source",
                    args |-> <<column_expr, source_tables>>,
                    result |-> _extract_column_source(metadata, column_expr, source_tables)]
        /\ UNCHANGED <<metadata, json_doc, imported>>
        /\ OnlyStore

NextResolve ==
    \/ ResolveAddColumn
    \/ ResolveSource

SpecResolve == InitStore /\ [][NextResolve]_vars

-----------------------------------------------------------------------------
(* Graphs of a column mapping: LineageVisualizer.generate_html_report read    *)
(* back by parse_html_to_graph (streamlit_app.py), and                        *)
(* LineageVisualizer.generate_mermaid_diagram.  A mapping is the ordered dict *)
(* as a sequence of <<target, sources>>.  Names hold no HTML markup.           *)

\* index of the first occurrence of sub in s, or 0
IndexOfText(s, sub) ==
    FirstIdx(s, 1, LAMBDA k : /\ k + Len(sub) - 1 <= Len(s)
                              /\ SubSeq(s, k, k + Len(sub) - 1) = sub)

\* s.split(sub, 1) of a text that holds sub
SplitFirst(s, sub) ==
    Bind(IndexOfText(s, sub),
         LAMBDA k : <<SubSeq(s, 1, k - 1), SubSeq(s, k + Len(sub), Len(s))>>)

\* s.split(c) from index i, c one character
RECURSIVE SplitOn(_, _, _)
SplitOn(s, i, c) ==
    Bind(IndexOf(s, i, c),
         LAMBDA j : IF j = 0 THEN <<SubSeq(s, i, Len(s))>>
                    ELSE <<SubSeq(s, i, j - 1)>> \o SplitOn(s, j + 1, c))

\* s.replace('.', '_')
ReplaceDots(s) == Join(SplitOn(s, 1, "."), "_")

\* s.rstrip(')')
RECURSIVE RStripParen(_)
RStripParen(s) ==
    IF s # "" /\ Ch(s, Len(s)) = ")" THEN RStripParen(SubSeq(s, 1, Len(s) - 1)) ELSE s

\* a piece of a table cell: the text of an element (span, i) or text between
\* elements
Element(text) == [element |-> TRUE, text |-> text]
Text(text) == [element |-> FALSE, text |-> text]

\* lines 125-129: the target cell, with two spans when the target has a dot
FormattedTarget(target_col) ==
    IF Contains(target_col, ".")
    THEN Bind(SplitFirst(target_col, "."),
              LAMBDA parts : <<Element(parts[1]), Text("."), Element(parts[2])>>)
    ELSE <<Element(target_col)>>

\* lines 137-156: one source of the source cell
FormattedSource(source_col) ==
    IF Contains(source_col, "Function:") THEN <<Element(source_col)>>
    ELSE IF Contains(source_col, ".")
    THEN Bind(SplitFirst(source_col, "."),
              LAMBDA parts :
                 IF Contains(parts[2], " (in ")
                 THEN Bind(SplitFirst(parts[2], " (in "),
                           LAMBDA cf : <<Element(parts[1]), Text("."), Element(cf[1]),
                                         Text(" (in " \o RStripParen(cf[2]) \o ")")>>)
                 ELSE <<Element(parts[1]), Text("."), Element(parts[2])>>)
    ELSE <<Element(source_col)>>

\* ', '.join(formatted_sources), empty sources skipped (line 134)
RECURSIVE FormattedSources(_, _, _)
FormattedSources(source_cols, i, first) ==
    IF i > Len(source_cols) THEN <<>>
    ELSE IF source_cols[i] = "" THEN FormattedSources(source_cols, i + 1, first)
    ELSE (IF first THEN <<>> ELSE <<Text(", ")>>)
         \o FormattedSource(source_cols[i])
         \o FormattedSources(source_cols, i + 1, FALSE)

\* generate_html_report: the rows of the table after the header row, each
\* with its target cell and its source cell
generate_html_report(column_mappings_) ==
    [i \in 1..Len(column_mappings_) |->
        [target |-> FormattedTarget(column_mappings_[i][1]),
         sources |-> FormattedSources(column_mappings_[i][2], 1, TRUE)]]

\* cell.find_all('span'): the texts of the cell's elements
RECURSIVE SpanTexts(_)
SpanTexts(cell) ==
    IF cell = <<>> THEN <<>>
    ELSE (IF Head(cell).element THEN <<Head(cell).text>> ELSE <<>>) \o SpanTexts(Tail(cell))

\* the text nodes of a cell as the HTML parser hands them over: text that is
\* not parted by a tag is one node, an empty element has none
RECURSIVE TextNodes(_, _)
TextNodes(cell, pending) ==
    IF cell = <<>> THEN (IF pending # "" THEN <<pending>> ELSE <<>>)
    ELSE IF Head(cell).element
         THEN (IF pending # "" THEN <<pending>> ELSE <<>>)
              \o (IF Head(cell).text # "" THEN <<Head(cell).text>> ELSE <<>>)
              \o TextNodes(Tail(cell), "")
         ELSE TextNodes(Tail(cell), pending \o Head(cell).text)

\* cell.get_text(separator=','): the text nodes joined by the separator
GetText(cell, separator) == Join(TextNodes(cell, ""), separator)

\* parse_html_to_graph: nodes, edges and node_mapping while the rows are read
EmptyGraph == [nodes |-> <<>>, edges |-> <<>>, node_mapping |-> EmptyDict]

\* "id = len(nodes); nodes.append({...}); node_mapping[key] = id"
AddNode(g, key, label, group) ==
    [nodes |-> Append(g.nodes, [id |-> Len(g.nodes), label |-> label, group |-> group]),
     edges |-> g.edges,
     node_mapping |-> Put(g.node_mapping, key, Len(g.nodes))]

\* "if key not in node_mapping: ..."
EnsureNode(g, key, label, group) ==
    IF key \in DOMAIN g.node_mapping THEN g ELSE AddNode(g, key, label, group)

\* edges.append({"from": node_mapping[from_key], "to": node_mapping[to_key]})
AddEdge(g, from_key, to_key) ==
    [nodes |-> g.nodes,
     edges |-> Append(g.edges, [from |-> g.node_mapping[from_key],
                                to |-> g.node_mapping[to_key]]),
     node_mapping |-> g.node_mapping]

\* a column node that is linked to its table every time it is met
EnsureColumnLinkedAgain(g, table, column_id, label) ==
    AddEdge(EnsureNode(g, column_id, label, "column"), table, column_id)

\* a column node, with the edge from its table when the node is new
EnsureColumn(g, table, column_id, label) ==
    IF column_id \in DOMAIN g.node_mapping THEN g
    ELSE AddEdge(AddNode(g, column_id, label, "column"), table, column_id)

\* lines 188-221: the target's table node and column node
GraphTarget(g, target_table, target_column) ==
    EnsureColumn(EnsureNode(g, target_table, target_table, "table"),
                 target_table, target_table \o "." \o target_column, target_column)

\* lines 252-296: a source text with a dot, split('.') of it
GraphSourceColumn(g, parts, target_id) ==
    Bind(Strip(parts[1]),
         LAMBDA source_table :
            Bind(source_table \o "." \o Strip(parts[2]),
                 LAMBDA source_id :
                    AddEdge(EnsureColumn(EnsureNode(g, source_table, source_table, "table"),
                                         source_table, source_id, Strip(parts[2])),
                            source_id, target_id)))

\* lines 228-296: one piece of the source cell's text, stripped
GraphSource(g, source_text, target_id) ==
    IF source_text = "" THEN g
    ELSE IF Contains(source_text, "Function:")
    THEN AddEdge(EnsureNode(g, source_text, source_text, "function"),
                 source_text, target_id)
    ELSE IF Contains(source_text, ".")
    THEN GraphSourceColumn(g, SplitOn(source_text, 1, "."), target_id)
    ELSE g

\* "for source_text in source_pairs"
RECURSIVE GraphSources(_, _, _, _)
GraphSources(g, source_pairs, i, target_id) ==
    IF i > Len(source_pairs) THEN g
    ELSE GraphSources(GraphSource(g, Strip(source_pairs[i]), target_id),
                      source_pairs, i + 1, target_id)

\* one row of the table: skipped unless the target cell has two spans
GraphRow(g, row) ==
    Bind(SpanTexts(row.target),
         LAMBDA target_spans :
            IF Len(target_spans) # 2 THEN g
            ELSE GraphSources(GraphTarget(g, target_spans[1], target_spans[2]),
                              SplitOn(GetText(row.sources, ","), 1, ","), 1,
                              target_spans[1] \o "." \o target_spans[2]))

RECURSIVE GraphRows(_, _, _)
GraphRows(g, table_rows, i) ==
    IF i > Len(table_rows) THEN g
    ELSE GraphRows(GraphRow(g, table_rows[i]), table_rows, i + 1)

\* parse_html_to_graph(html_content) on the rows of a report
parse_html_to_graph(table_rows) ==
    Bind(GraphRows(EmptyGraph, table_rows, 1),
         LAMBDA g : [nodes |-> g.nodes, edges |-> g.edges])

\* generate_mermaid_diagram: the node lines "id[label]" with their class, the
\* edge lines "a --> b", and the set nodes of the ids used
EmptyDiagram == [nodes |-> <<>>, edges |-> <<>>, ids |-> {}]

\* result.append("id[label]"); nodes.add(id)
MermaidNode(d, id, label, group) ==
    [nodes |-> Append(d.nodes, [id |-> id, label |-> label, group |-> group]),
     edges |-> d.edges,
     ids |-> d.ids \cup {id}]

\* result.append("a --> b")
MermaidEdge(d, from_id, to_id) ==
    [nodes |-> d.nodes,
     edges |-> Append(d.edges, [from |-> from_id, to |-> to_id]),
     ids |-> d.ids]

TableId(table) == "table_" \o ReplaceDots(table)
ColumnId(table, column) == "col_" \o ReplaceDots(table) \o "_" \o ReplaceDots(column)

\* lines 32-45 and 73-86: the table node and the column node, when new
MermaidColumn(d, table, column) ==
    Bind(IF TableId(table) \in d.ids THEN d
         ELSE MermaidNode(d, TableId(table), table, "table"),
         LAMBDA e :
            IF ColumnId(table, column) \in e.ids THEN e
            ELSE MermaidEdge(MermaidNode(e, ColumnId(table, column), column, "column"),
                             TableId(table), ColumnId(table, column)))

\* "table, column = name.split('.', 1)", Unknown for a name without a dot
TableAndColumn(name) ==
    IF Contains(name, ".") THEN SplitFirst(name, ".") ELSE <<"Unknown", name>>

\* lines 53-58: a function source gets the id func_<len(nodes)>
MermaidFunction(d, source_col, target_col_id) ==
    Bind("func_" \o ToString(Cardinality(d.ids)),
         LAMBDA function_id :
            MermaidEdge(MermaidNode(d, function_id, source_col, "function"),
                        function_id, target_col_id))

\* lines 48-89: one source of a target
MermaidSource(d, source_col, target_col_id) ==
    IF source_col = "" THEN d
    ELSE IF Contains(source_col, "Function:")
    THEN MermaidFunction(d, source_col, target_col_id)
    ELSE Bind(TableAndColumn(source_col),
              LAMBDA tc :
                 Bind(IF Contains(tc[2], " (in ") THEN SplitFirst(tc[2], " (in ")[1]
                      ELSE tc[2],
                      LAMBDA source_column :
                         MermaidEdge(MermaidColumn(d, tc[1], source_column),
                                     ColumnId(tc[1], source_column), target_col_id)))

RECURSIVE MermaidSources(_, _, _, _)
MermaidSources(d, source_cols, i, target_col_id) ==
    IF i > Len(source_cols) THEN d
    ELSE MermaidSources(MermaidSource(d, source_cols[i], target_col_id),
                        source_cols, i + 1, target_col_id)

\* lines 24-89: one item of the mapping
MermaidTarget(d, target_col, source_cols) ==
    Bind(TableAndColumn(target_col),
         LAMBDA tc : MermaidSources(MermaidColumn(d, tc[1], tc[2]), source_cols, 1,
                                    ColumnId(tc[1], tc[2])))

RECURSIVE MermaidTargets(_, _, _)
MermaidTargets(d, column_mappings_, i) ==
    IF i > Len(column_mappings_) THEN d
    ELSE MermaidTargets(MermaidTarget(d, column_mappings_[i][1], column_mappings_[i][2]),
                        column_mappings_, i + 1)

\* generate_mermaid_diagram(column_mappings): the nodes and edges of the text
generate_mermaid_diagram(column_mappings_) ==
    Bind(MermaidTargets(EmptyDiagram, column_mappings_, 1),
         LAMBDA d : [nodes |-> d.nodes, edges |-> d.edges])

-----------------------------------------------------------------------------
(* The graph builds as a state machine: one build per call, on a column   *)
(* mapping as the analyzer hands it over (target -> list of sources, in    *)
(* insertion order)                                                        *)

MaxTargets == 2
MaxSources == 2

\* target columns and source texts as _extract_column_source renders them
GraphTargetNames == {"t.c", "t.d"}
GraphSourceTexts == {"s.c", "Function: NOW()", "o.amount (in SUM)"}

\* the lists of at most n source texts
SourceLists(n) == UNION {[1..k -> GraphSourceTexts] : k \in 0..n}

\* the lists of at most n targets; the keys of a dict are distinct
TargetLists(n) ==
    {ts \in UNION {[1..k -> GraphTargetNames] : k \in 0..n} :
        \A i, j \in 1..Len(ts) : ts[i] = ts[j] => i = j}

\* the mappings of at most max_targets targets with at most max_sources
\* sources each
ColumnMappings(max_targets, max_sources) ==
    UNION {{[i \in 1..Len(ts) |-> <<ts[i], ss[i]>>] :
               ss \in [1..Len(ts) -> SourceLists(max_sources)]}
           : ts \in TargetLists(max_targets)}

InitGraph ==
    /\ IdleSplit /\ IdleNorm /\ IdleAn /\ IdleStore
    /\ IdleGraph /\ IdleClause /\ IdleLoop

\* display_visualizations, tab 1, called when the statement has mappings: the
\* network is read back from the HTML report
DisplayNetwork ==
    \E column_mappings_ \in ColumnMappings(MaxTargets, MaxSources) :
        /\ gr_pc = "idle"
        /\ column_mappings_ # <<>>
        /\ viz_mappings' = column_mappings_
        /\ graph_data' = parse_html_to_graph(generate_html_report(column_mappings_))
        /\ mermaid' = NoGraph
        /\ gr_pc' = "network"
        /\ OnlyGraph

\* LineageVisualizer.generate_mermaid_diagram(column_mappings)
GenerateMermaid ==
    \E column_mappings_ \in ColumnMappings(MaxTargets, MaxSources) :
        /\ gr_pc = "idle"
        /\ viz_mappings' = column_mappings_
        /\ mermaid' = generate_mermaid_diagram(column_mappings_)
        /\ graph_data' = NoGraph
        /\ gr_pc' = "mermaid"
        /\ OnlyGraph

\* the script is run again from the top: the graph of the last run is gone
RerunGraph ==
    /\ gr_pc # "idle"
    /\ viz_mappings' = <<>> /\ graph_data' = NoGraph /\ mermaid' = NoGraph
    /\ gr_pc' = "idle"
    /\ OnlyGraph

NextGraph ==
    \/ DisplayNetwork
    \/ GenerateMermaid
    \/ RerunGraph

SpecGraph == InitGraph /\ [][NextGraph]_vars

-----------------------------------------------------------------------------
(* LLMMetadataParser: metadata extracted from a text, by the LLM's JSON    *)
(* answer or by the pattern matcher.  A text comes with the matches the    *)
(* two table patterns find in it, each with the column matches of its      *)
(* section; names and descriptions in the LLM's answer are strings.        *)

\* one column of the answer: an object with name, data_type, description, or
\* a value that is no object
AnswerColumn(name, data_type, description) ==
    [object |-> TRUE, name |-> name, data_type |-> data_type, description |-> description]
NoColumnObject == [object |-> FALSE, name |-> "", data_type |-> "", description |-> ""]

\* one table of the answer; columns_list is whether "columns" can be iterated
\* (a missing key is the empty list, line 78)
AnswerTable(table_name, description, columns) ==
    [object |-> TRUE, table_name |-> table_name, description |-> description,
     columns_list |-> TRUE, columns |-> columns]
AnswerTableNullColumns(table_name) ==
    [object |-> TRUE, table_name |-> table_name, description |-> "",
     columns_list |-> FALSE, columns |-> <<>>]
NoTableObject ==
    [object |-> FALSE, table_name |-> "", description |-> "",
     columns_list |-> FALSE, columns |-> <<>>]

\* the answer: generate_response raises ("raises"), holds no {...} ("text"),
\* holds braces that json.loads rejects ("invalid"), or holds an object
\* ("json") with or without a "tables" member that is or is not a list
Answer(kind, has_tables, tables_list, tables) ==
    [kind |-> kind, has_tables |-> has_tables, tables_list |-> tables_list,
     tables |-> tables]
AnswerJson(tables) == Answer("json", TRUE, TRUE, tables)

\* lines 78-96: the columns of one table; an item that is no object raises at
\* column.get
RECURSIVE ExtractColumns(_, _, _, _)
ExtractColumns(md, table_name, columns, i) ==
    IF i > Len(columns) THEN [md |-> md, error |-> FALSE]
    ELSE IF ~columns[i].object THEN [md |-> md, error |-> TRUE]
    ELSE IF columns[i].name = "" THEN ExtractColumns(md, table_name, columns, i + 1)
    ELSE ExtractColumns(
            add_column(md, columns[i].name, table_name, "",
                       IF columns[i].data_type # ""
                       THEN Put(EmptyDict, "data_type", columns[i].data_type)
                       ELSE EmptyDict,
                       columns[i].description),
            table_name, columns, i + 1)

\* lines 67-96: the tables of the answer, the store changed as they are read
RECURSIVE ExtractTables(_, _, _)
ExtractTables(md, tables, i) ==
    IF i > Len(tables) THEN [md |-> md, error |-> FALSE]
    ELSE IF ~tables[i].object THEN [md |-> md, error |-> TRUE]
    ELSE IF tables[i].table_name = "" THEN ExtractTables(md, tables, i + 1)
    ELSE IF ~tables[i].columns_list
    THEN [md |-> add_table(md, tables[i].table_name, "", tables[i].description),
          error |-> TRUE]
    ELSE Bind(ExtractColumns(add_table(md, tables[i].table_name, "",
                                       tables[i].description),
                             tables[i].table_name, tables[i].columns, 1),
              LAMBDA r : IF r.error THEN r ELSE ExtractTables(r.md, tables, i + 1))

\* lines 56-104: the try block; outcome "done" is return True, any other
\* outcome goes on to the pattern matcher with the store as it is by then
ExtractFromAnswer(md, answer) ==
    IF answer.kind = "raises" THEN [md |-> md, outcome |-> "exception"]
    ELSE IF answer.kind = "text" THEN [md |-> md, outcome |-> "no json"]
    ELSE IF answer.kind = "invalid" THEN [md |-> md, outcome |-> "exception"]
    ELSE IF ~answer.has_tables THEN [md |-> md, outcome |-> "no json"]
    ELSE IF ~answer.tables_list THEN [md |-> md, outcome |-> "exception"]
    ELSE Bind(ExtractTables(md, answer.tables, 1),
              LAMBDA r : [md |-> r.md,
                          outcome |-> IF r.error THEN "exception" ELSE "done"])

\* a match of a table pattern: groups 1 and 2 stripped, and the column matches
\* (groups 1 and 2 stripped) of the section that follows it
TableMatch(name, description, columns) ==
    [name |-> name, description |-> description, columns |-> columns]

ColumnStopWords == {"columns", "column", "and", "with", "has"}
TableStopWords == {"table", "column", "following"}

\* lines 243-250, 279-285: the column matches of a section
RECURSIVE MatchedColumns(_, _, _, _)
MatchedColumns(md, table_name, columns, i) ==
    IF i > Len(columns) THEN md
    ELSE MatchedColumns(
            IF columns[i][1] # "" /\ Lower(columns[i][1]) \notin ColumnStopWords
            THEN add_column(md, columns[i][1], table_name, "", EmptyDict, columns[i][2])
            ELSE md,
            table_name, columns, i + 1)

\* lines 221-250: every match of table_pattern adds its table
RECURSIVE MatchedTables(_, _, _)
MatchedTables(md, matches, i) ==
    IF i > Len(matches) THEN md
    ELSE MatchedTables(
            MatchedColumns(add_table(md, matches[i].name, "", matches[i].description),
                           matches[i].name, matches[i].columns, 1),
            matches, i + 1)

\* lines 257-285: the matches of alt_table_pattern, those that do not look
\* like a table name skipped
RECURSIVE AltMatchedTables(_, _, _)
AltMatchedTables(r, matches, i) ==
    IF i > Len(matches) THEN r
    ELSE IF matches[i].name = "" \/ Lower(matches[i].name) \in TableStopWords
    THEN AltMatchedTables(r, matches, i + 1)
    ELSE AltMatchedTables(
            [md |-> MatchedColumns(add_table(r.md, matches[i].name, "",
                                             matches[i].description),
                                   matches[i].name, matches[i].columns, 1),
             success |-> TRUE],
            matches, i + 1)

\* [cell.strip() for cell in line.strip().split(',')]
Cells(line) ==
    Bind(SplitOn(Strip(line), 1, ","),
         LAMBDA cells : [i \in 1..Len(cells) |-> Strip(cells[i])])

\* lines 298-304: the index (from 1) of the last header cell whose lower case
\* is one of the names, 0 for None
HeaderIndex(header, names) ==
    IF \E i \in 1..Len(header) : Lower(header[i]) \in names
    THEN CHOOSE i \in 1..Len(header) :
            /\ Lower(header[i]) \in names
            /\ \A j \in (i + 1)..Len(header) : Lower(header[j]) \notin names
    ELSE 0

TableHeaders == {"objectname", "table", "table name"}
ColumnHeaders == {"fieldname", "column", "column name"}
TypeHeaders == {"dataformat", "data type", "type"}

\* lines 308-327: the rows under the header
RECURSIVE TabularRows(_, _, _, _, _, _)
TabularRows(r, lines, i, table_idx, column_idx, datatype_idx) ==
    IF i > Len(lines) THEN r
    ELSE Bind(Cells(lines[i]),
              LAMBDA row :
                IF Len(row) < table_idx \/ Len(row) < column_idx
                THEN TabularRows(r, lines, i + 1, table_idx, column_idx, datatype_idx)
                ELSE TabularRows(
                        [md |-> add_column(add_table(r.md, row[table_idx], "", ""),
                                           row[column_idx], row[table_idx], "",
                                           IF datatype_idx # 0 /\ datatype_idx <= Len(row)
                                           THEN Put(EmptyDict, "data_type", row[datatype_idx])
                                           ELSE EmptyDict,
                                           ""),
                         success |-> TRUE],
                        lines, i + 1, table_idx, column_idx, datatype_idx))

\* lines 287-327: the tabular format
Tabular(r, lines) ==
    IF Len(lines) > 1 /\ (Contains(lines[1], "ObjectName") \/ Contains(lines[1], "Table Name"))
    THEN Bind(Cells(lines[1]),
              LAMBDA header :
                IF HeaderIndex(header, TableHeaders) # 0
                   /\ HeaderIndex(header, ColumnHeaders) # 0
                THEN TabularRows(r, lines, 2, HeaderIndex(header, TableHeaders),
                                 HeaderIndex(header, ColumnHeaders),
                                 HeaderIndex(header, TypeHeaders))
                ELSE r)
    ELSE r

\* _fallback_extract_from_text(text, metadata_store): the store after the call
\* and the value returned
_fallback_extract_from_text(md, text) ==
    Tabular(IF text.table_matches # <<>>
            THEN [md |-> MatchedTables(md, text.table_matches, 1), success |-> TRUE]
            ELSE AltMatchedTables([md |-> md, success |-> FALSE], text.alt_matches, 1),
            SplitOn(Strip(text.text), 1, "\n"))

\* extract_metadata_from_text(text, metadata_store) with the LLM as it is
extract_metadata_from_text(md, text, llm) ==
    IF ~llm.enabled THEN _fallback_extract_from_text(md, text)
    ELSE Bind(ExtractFromAnswer(md, llm.answer),
              LAMBDA r : IF r.outcome = "done" THEN [md |-> r.md, success |-> TRUE]
                         ELSE _fallback_extract_from_text(r.md, text))

\* texts handed to the extractor, each with what table_pattern.finditer and
\* alt_table_pattern.finditer find in it
ExtractTexts ==
    { [text |-> "hello",
       table_matches |-> <<>>,
       alt_matches |-> <<>>],
      [text |-> "orders table holds data about sales with columns: id which is the key.",
       table_matches |-> <<TableMatch("orders", "sales with", <<<<"id", "key">>>>)>>,
       alt_matches |-> <<TableMatch("orders", "holds data about sales with columns", <<<<"which", "the key.">>>>)>>],
      [text |-> "orders: id - the key",
       table_matches |-> <<>>,
       alt_matches |-> <<TableMatch("orders", "", <<<<"id", "the key">>>>)>>],
      [text |-> "table: c is d",
       table_matches |-> <<>>,
       alt_matches |-> <<TableMatch("table", "", <<<<"c", "d">>>>)>>],
      [text |-> "Table Name,Column\nt,c",
       table_matches |-> <<>>,
       alt_matches |-> <<>>],
      [text |-> "Table Name,Notes\nt,c",
       table_matches |-> <<>>,
       alt_matches |-> <<>>] }

ExtractAnswers ==
    { Answer("raises", FALSE, FALSE, <<>>),
      Answer("text", FALSE, FALSE, <<>>),
      Answer("invalid", FALSE, FALSE, <<>>),
      Answer("json", FALSE, FALSE, <<>>),
      Answer("json", TRUE, FALSE, <<>>),
      AnswerJson(<<>>),
      AnswerJson(<<AnswerTable("t", "dt", <<AnswerColumn("c", "int", "dc")>>)>>),
      AnswerJson(<<AnswerTable("t", "", <<NoColumnObject>>)>>),
      AnswerJson(<<AnswerTable("u", "", <<AnswerColumn("d", "", "")>>), NoTableObject>>),
      AnswerJson(<<AnswerTable("", "", <<>>), AnswerTableNullColumns("v")>>) }

LLMs ==
    {[enabled |-> FALSE, answer |-> Answer("raises", FALSE, FALSE, <<>>)]}
    \cup {[enabled |-> TRUE, answer |-> a] : a \in ExtractAnswers}

\* parser.extract_metadata_from_text(text, metadata_store) on the store as it is
ExtractMetadataFromText ==
    \E text \in ExtractTexts, llm \in LLMs :
        /\ n_ops < MaxOps
        /\ n_ops' = n_ops + 1
        /\ metadata' = extract_metadata_from_text(metadata, text, llm).md
        /\ call' = [op |-> "extract_metadata_from_text", args |-> <<text, llm>>,
                    returned |-> extract_metadata_from_text(metadata, text, llm).success,
                    raised |-> FALSE]
        /\ UNCHANGED <<json_doc, imported>>
        /\ OnlyStore

NextExtract == ExtractMetadataFromText

SpecExtract == InitStore /\ [][NextExtract]_vars

-----------------------------------------------------------------------------
(* Reference reading of SQL text, used to state the splitter's contract *)

\* the literal open after reading s[1..i-1]: "" (none), "'" or "\""
RECURSIVE OpenQuoteBefore(_, _)
OpenQuoteBefore(s, i) ==
    IF i <= 1 THEN ""
    ELSE LET q == OpenQuoteBefore(s, i - 1)
             c == Ch(s, i - 1)
         IN IF c \notin Quotes THEN q
            ELSE IF q = "" THEN c
            ELSE IF q = c THEN "" ELSE q

\* SQL lexing of s from position i in mode m ("code", a quote character, "line",
\* "block"): <<segments closed by a ";" in code mode, rest after the last one,
\* final mode>>; comments read as one blank, comment markers inside a literal
\* and quotes inside a comment are ordinary characters
RECURSIVE Lex(_, _, _, _, _)
Lex(s, i, m, cur, acc) ==
    IF i > Len(s) THEN <<acc, cur, m>>
    ELSE LET c == Ch(s, i)
             two == IF i < Len(s) THEN SubSeq(s, i, i + 1) ELSE ""
         IN CASE m = "code" /\ two = "--" -> Lex(s, i + 2, "line", cur \o " ", acc)
              [] m = "code" /\ two = "/*" -> Lex(s, i + 2, "block", cur \o " ", acc)
              [] m = "code" /\ two \notin {"--", "/*"} /\ c \in Quotes ->
                    Lex(s, i + 1, c, cur \o c, acc)
              [] m = "code" /\ two \notin {"--", "/*"} /\ c = ";" ->
                    Lex(s, i + 1, "code", "", Append(acc, cur))
              [] m = "code" /\ two \notin {"--", "/*"} /\ c \notin Quotes \cup {";"} ->
                    Lex(s, i + 1, "code", cur \o c, acc)
              [] m \in Quotes ->
                    Lex(s, i + 1, IF c = m THEN "code" ELSE m, cur \o c, acc)
              [] m = "line" ->
                    IF c = "\n" THEN Lex(s, i + 1, "code", cur \o c, acc)
                    ELSE Lex(s, i + 1, "line", cur, acc)
              [] m = "block" ->
                    IF two = "*/" THEN Lex(s, i + 2, "code", cur, acc)
                    ELSE Lex(s, i + 1, "block", cur, acc)

\* s is N >= 0 non-blank statements, each closed by a ";" outside literals (and
\* comments), with nothing but blanks and comments after the last
TerminatedStatements(s) ==
    LET r == Lex(s, 1, "code", "", <<>>)
    IN /\ r[3] \in {"code", "line"}
       /\ Strip(r[2]) = ""
       /\ \A k \in 1..Len(r[1]) : Strip(r[1][k]) # ""

NumStatements(s) == Len(Lex(s, 1, "code", "", <<>>)[1])

-----------------------------------------------------------------------------
(* MetadataStore.load_metadata_from_sql (metadata.py): the tables, views and  *)
(* columns a text declares are added to the store                             *)

NoDefinition == [name |-> "", capture |-> "", end |-> 0]

\* r'([^\s(]+)\s*\(([^)]+)\)' at p: the name, the capture and the index after
TableDefinitionAfter(s, p) ==
    IF ParamsAfterName(s, p) = NoParams THEN NoDefinition
    ELSE [name |-> Token(s, p, {"("}),
          capture |-> ParamsAfterName(s, p).capture,
          end |-> ParamsAfterName(s, p).end]

\* the first definition of a sequence that is one
FirstDefinition(ds) ==
    Bind(MinOrZero({j \in 1..Len(ds) : ds[j] # NoDefinition}),
         LAMBDA k : IF k = 0 THEN NoDefinition ELSE ds[k])

\* r'(?:TEMP|TEMPORARY\s+)?TABLE\s+([^\s(]+)\s*\(([^)]+)\)' at p
TableDefinitionAt(s, p) ==
    IF p = 0 THEN NoDefinition
    ELSE FirstDefinition(<<
            IF MatchCI(s, p, "TEMP")
            THEN TableDefinitionAfter(s, AfterKw(s, p + 4, "TABLE")) ELSE NoDefinition,
            TableDefinitionAfter(s, AfterKw(s, AfterKw(s, p, "TEMPORARY"), "TABLE")),
            TableDefinitionAfter(s, AfterKw(s, p, "TABLE")) >>)

\* line 464: create_table_pattern at i
CreateTableDefinitionAt(s, i) ==
    Bind(AfterKw(s, i, "CREATE"),
         LAMBDA p : FirstDefinition(<< TableDefinitionAt(s, OrReplace(s, p)),
                                       TableDefinitionAt(s, p) >>))

NoColumnDef == [column_name |-> "", data_type |-> "", end |-> 0]

\* line 482: r'([^\s,]+)\s+([^,]+?)(?:,|$)' at k; the blanks give one back when
\* nothing else is left for the type
ColumnDefAt(s, k) ==
    LET e == TokenEnd(s, k, {","})
        q == SkipWS(s, e)
        c == Bind(IndexOf(s, q, ","), LAMBDA j : IF j = 0 THEN Len(s) + 1 ELSE j)
        n == IF c > q THEN q ELSE q - 1
    IN IF e = k \/ q = e \/ n <= e THEN NoColumnDef
       ELSE [column_name |-> SubSeq(s, k, e - 1),
             data_type |-> Strip(SubSeq(s, n, c - 1)),
             end |-> IF c > Len(s) THEN c ELSE c + 1]

\* lines 483-495: the columns of one table, each added with its data type
RECURSIVE AddColumnDefs(_, _, _, _, _)
AddColumnDefs(md, columns_text, i, table_name, database_name) ==
    Bind(FirstIdx(columns_text, i, LAMBDA k : ColumnDefAt(columns_text, k) # NoColumnDef),
         LAMBDA m :
            IF m = 0 THEN md
            ELSE AddColumnDefs(
                    add_column(md, ColumnDefAt(columns_text, m).column_name,
                               table_name, database_name,
                               Put(EmptyDict, "data_type",
                                   ColumnDefAt(columns_text, m).data_type), ""),
                    columns_text, ColumnDefAt(columns_text, m).end,
                    table_name, database_name))

\* lines 471-476 and 505-510: the database of a name with exactly one dot
NameParts(name) ==
    IF Len(SplitOn(name, 1, ".")) = 2
    THEN [db |-> SplitOn(name, 1, ".")[1], table |-> SplitOn(name, 1, ".")[2]]
    ELSE [db |-> "", table |-> name]

\* lines 467-495: the tables of the successive matches from index i
RECURSIVE LoadCreatedTables(_, _, _)
LoadCreatedTables(md, s, i) ==
    Bind(FirstIdx(s, i, LAMBDA k : CreateTableDefinitionAt(s, k) # NoDefinition),
         LAMBDA m :
            IF m = 0 THEN md
            ELSE Bind(CreateTableDefinitionAt(s, m),
                      LAMBDA def :
                         LoadCreatedTables(
                            AddColumnDefs(
                                add_table(md, NameParts(def.name).table,
                                          NameParts(def.name).db, ""),
                                Strip(def.capture), 1,
                                NameParts(def.name).table, NameParts(def.name).db),
                            s, def.end)))

\* "(.+?)\s+FROM" under re.DOTALL with the group starting at g: the index of the
\* last character of the lazy group, 0 without a match
LazyEndBeforeFrom(s, g) == FirstIdx(s, g, LAMBDA k : BlankThenFrom(s, k + 1))

\* r'([^\s(]+)\s+AS\s+SELECT\s+(.+?)\s+FROM' at p: the blanks after SELECT are
\* given back one by one until the rest matches
ViewDefinitionAfter(s, p) ==
    IF p = 0 \/ TokenEnd(s, p, {"("}) = p THEN NoDefinition
    ELSE LET e == TokenEnd(s, p, {"("})
             a == IF SkipWS(s, e) > e THEN AfterKw(s, SkipWS(s, e), "AS") ELSE 0
             g == AfterKw(s, a, "SELECT")
             starts == [k \in 1..(g - (a + 6)) |-> g + 1 - k]
             fits == {k \in DOMAIN starts : LazyEndBeforeFrom(s, starts[k]) # 0}
         IN IF g = 0 \/ fits = {} THEN NoDefinition
            ELSE Bind(starts[MinOrZero(fits)],
                      LAMBDA b :
                         [name |-> SubSeq(s, p, e - 1),
                          capture |-> SubSeq(s, b, LazyEndBeforeFrom(s, b)),
                          end |-> SkipWS(s, LazyEndBeforeFrom(s, b) + 1) + 4])

\* line 498: create_view_pattern at i
CreateViewDefinitionAt(s, i) ==
    Bind(AfterKw(s, i, "CREATE"),
         LAMBDA p : FirstDefinition(<<
                        ViewDefinitionAfter(s, AfterKw(s, OrReplace(s, p), "VIEW")),
                        ViewDefinitionAfter(s, AfterKw(s, p, "VIEW")) >>))

\* lines 537-551: the column a projection of a view is filed under
ViewColumnName(col_expr) ==
    IF Alias(col_expr) # <<>> THEN Strip(Alias(col_expr)[2])
    ELSE _derive_column_name(col_expr)

RECURSIVE AddViewColumns(_, _, _, _, _)
AddViewColumns(md, columns, i, view_name, database_name) ==
    IF i > Len(columns) THEN md
    ELSE AddViewColumns(
            add_column(md, ViewColumnName(columns[i]), view_name, database_name,
                       Put(EmptyDict, "derived_from", columns[i]), ""),
            columns, i + 1, view_name, database_name)

\* lines 501-551: the views of the successive matches from index i
RECURSIVE LoadCreatedViews(_, _, _)
LoadCreatedViews(md, s, i) ==
    Bind(FirstIdx(s, i, LAMBDA k : CreateViewDefinitionAt(s, k) # NoDefinition),
         LAMBDA m :
            IF m = 0 THEN md
            ELSE Bind(CreateViewDefinitionAt(s, m),
                      LAMBDA def :
                         LoadCreatedViews(
                            AddViewColumns(
                                add_table(md, NameParts(def.name).table,
                                          NameParts(def.name).db, ""),
                                SplitTopLevel(Strip(def.capture), 1, "", 0), 1,
                                NameParts(def.name).table, NameParts(def.name).db),
                            s, def.end)))

\* MetadataStore.load_metadata_from_sql: the tables, then the views
load_metadata_from_sql(md, text) == LoadCreatedViews(LoadCreatedTables(md, text, 1), text, 1)

-----------------------------------------------------------------------------
(* A session of every mutator and every import on one MetadataStore *)

\* texts given to load_metadata_from_sql
DdlTexts ==
    {"CREATE TABLE t (x INT, y INT)", "CREATE TABLE db1.t (c DECIMAL(10,2), x INT)",
     "CREATE TEMPORARY TABLE a.b.c (_table_properties INT)",
     "CREATE OR REPLACE VIEW t AS SELECT s.c AS c, SUM(s.y) FROM s",
     "INSERT INTO t (c) SELECT x FROM s"}

\* import_metadata_from_file of a .sql file, process_pasted_metadata(text, "sql")
LoadMetadataFromSql ==
    \E text \in DdlTexts :
        /\ n_ops < MaxOps
        /\ metadata' = load_metadata_from_sql(metadata, text)
        /\ Called("load_metadata_from_sql", <<text>>)

NextRegistry ==
    \/ AddDatabase
    \/ AddTable
    \/ AddColumn
    \/ SetTableDescription
    \/ SetColumnDescription
    \/ ImportCsvFile
    \/ PasteCsv
    \/ ImportJsonFile
    \/ PasteJson
    \/ LoadMetadataFromSql

SpecRegistry == InitStore /\ [][NextRegistry]_vars

-----------------------------------------------------------------------------
(* A session of reads between writes on one MetadataStore *)

ReadTables  == {"s", "u", "db1.s"}
ReadColumns == {"x", "z"}

\* statements given to analyze_sql
ReadTexts ==
    {"INSERT INTO t (a) SELECT x FROM s",
     "CREATE VIEW v AS SELECT x FROM u JOIN s",
     "CREATE TABLE u (x INT)"}

\* a read call of the session
Read(op, args, result) ==
    /\ n_ops < MaxOps
    /\ n_ops' = n_ops + 1
    /\ call' = [op |-> op, args |-> args, result |-> result]
    /\ UNCHANGED <<json_doc, imported>>
    /\ OnlyStore

\* LineageAnalyzer.analyze_sql(sql_text) on the store of the analyzer
AnalyzeSql ==
    \E text \in ReadTexts :
        /\ metadata' = metadata
        /\ Read("analyze_sql", <<text>>, analyze_sql(metadata, text))

ColumnExists ==
    \E t \in ReadTables, c \in ReadColumns, db \in DbArgs :
        /\ metadata' = metadata
        /\ Read("column_exists", <<t, c, db>>, column_exists(metadata, t, c, db))

\* get_columns that makes sure of the table first, as set_table_description does
GetColumnsEnsuringTable ==
    \E t \in ReadTables, db \in DbArgs :
        /\ metadata' = add_table(metadata, t, db, "")
        /\ Read("get_columns", <<t, db>>, get_columns(metadata', t, db))

GetColumns ==
    \E t \in ReadTables, db \in DbArgs :
        /\ metadata' = metadata
        /\ Read("get_columns", <<t, db>>, get_columns(metadata, t, db))

GetTableDescription ==
    \E t \in ReadTables, db \in DbArgs :
        /\ metadata' = metadata
        /\ Read("get_table_description", <<t, db>>,
                get_table_description(metadata, t, db))

GetColumnDescription ==
    \E c \in ReadColumns, t \in ReadTables, db \in DbArgs :
        /\ metadata' = metadata
        /\ Read("get_column_description", <<c, t, db>>,
                get_column_description(metadata, c, t, db))

NextReads ==
    \/ ResolveAddColumn
    \/ SetTableDescription
    \/ AnalyzeSql
    \/ ColumnExists
    \/ GetColumns
    \/ GetTableDescription
    \/ GetColumnDescription

SpecReads == InitStore /\ [][NextReads]_vars

-----------------------------------------------------------------------------
(* The analysis loop of main (streamlit_app.py lines 1426-1450): one click on *)
(* "Analyze SQL" in a fresh session                                           *)

\* most statements of a script
MaxStatements == 3

LoopStatements ==
    <<"CREATE TABLE s (x INT, y INT)",
      "CREATE TABLE u (p DECIMAL(10,2), x INT)",
      "CREATE TEMP TABLE w (y INT)",
      "INSERT INTO t (a) SELECT x FROM s",
      "INSERT INTO t (a, b) SELECT x, y FROM u JOIN w JOIN s",
      "CREATE VIEW v AS SELECT y FROM s">>

\* the scripts of at most n statements, each closed by ";"
Scripts(n) ==
    {Join([k \in 1..Len(picks) |-> LoopStatements[picks[k]] \o ";"], "\n") :
        picks \in UNION {[1..m -> 1..Len(LoopStatements)] : m \in 1..n}}

InitLoop ==
    /\ IdleSplit /\ IdleNorm /\ IdleAn /\ IdleStore /\ IdleGraph
    /\ IdleClause /\ IdleLoop

\* lines 1426-1436: the button is clicked, the script is split
ClickAnalyze ==
    \E script \in Scripts(MaxStatements) :
        /\ lp_pc = "idle"
        /\ lp_script' = script
        /\ lp_statements' = extract_sql_statements(script)
        /\ lp_i' = 1
        /\ lp_mappings' = <<>>
        /\ lp_pc' = IF extract_sql_statements(script) = <<>> THEN "done" ELSE "load"
        /\ UNCHANGED metadata
        /\ OnlyLoop

\* line 1447: metadata_store.load_metadata_from_sql(statement)
LoadStatement ==
    /\ lp_pc = "load"
    /\ metadata' = load_metadata_from_sql(metadata, lp_statements[lp_i])
    /\ lp_pc' = "analyze"
    /\ UNCHANGED <<lp_script, lp_statements, lp_i, lp_mappings>>
    /\ OnlyLoop

\* line 1450: column_mappings = analyzer.analyze_sql(statement), shown in the
\* tab of the statement; then the next statement
AnalyzeStatement ==
    /\ lp_pc = "analyze"
    /\ lp_mappings' = Append(lp_mappings, analyze_sql(metadata, lp_statements[lp_i]))
    /\ lp_i' = lp_i + 1
    /\ lp_pc' = IF lp_i = Len(lp_statements) THEN "done" ELSE "load"
    /\ UNCHANGED <<lp_script, lp_statements, metadata>>
    /\ OnlyLoop

NextLoop ==
    \/ ClickAnalyze
    \/ LoadStatement
    \/ AnalyzeStatement

SpecLoop == InitLoop /\ [][NextLoop]_vars

-----------------------------------------------------------------------------
(* The clause extractors on one statement text *)

\* the pieces a statement text is written from
MaxPieces == 3

\* how a statement begins
ClauseHeads ==
    {"SELECT a", "select a", "INSERT INTO t (a) SELECT a", "UPDATE t SET a = 1",
     "DELETE", "ALTER TABLE x", "DROP TABLE x", "MERGE INTO t",
     "CREATE TABLE x AS SELECT a", "CREATE TEMP TABLE x AS SELECT a",
     "CREATE TEMPORARY TABLE x AS SELECT a",
     "CREATE OR REPLACE TABLE x AS SELECT a",
     "CREATE VIEW x AS SELECT a", "CREATE OR REPLACE VIEW x AS SELECT a",
     "create view X as select a",
     "CREATE PROCEDURE p(a INT, p DECIMAL(10,2), OUT b INT)",
     "CREATE PROCEDURE q(IN a INT, INOUT c INT, d INT, out e INT)",
     "CREATE OR REPLACE PROCEDURE r(a INT)",
     "CREATE OR REPLACE FUNCTION f(a INT)", "CREATE FUNCTION g()"}

\* how it goes on
ClauseTails ==
    {" FROM a", " from B", " JOIN b", " JOIN a", " WHERE k IN (SELECT c FROM c)",
     " INSERT INTO u(a)", " AS BEGIN"}

InitClauses ==
    /\ IdleSplit /\ IdleNorm /\ IdleAn /\ IdleStore /\ IdleGraph
    /\ IdleClause /\ IdleLoop

\* a statement text is begun
WriteHead ==
    \E head \in ClauseHeads :
        /\ cl_n = 0
        /\ cl_text' = head
        /\ cl_n' = 1
        /\ UNCHANGED cl_call
        /\ OnlyClause

\* and continued
WriteTail ==
    \E tail \in ClauseTails :
        /\ cl_n > 0
        /\ cl_n < MaxPieces
        /\ cl_call.op = "none"
        /\ cl_text' = cl_text \o tail
        /\ cl_n' = cl_n + 1
        /\ UNCHANGED cl_call
        /\ OnlyClause

\* SQLComponentExtractor.extract_query_type(sql_text)
ExtractQueryType ==
    /\ cl_n > 0
    /\ cl_call.op = "none"
    /\ cl_call' = [op |-> "extract_query_type", result |-> extract_query_type(cl_text)]
    /\ UNCHANGED <<cl_text, cl_n>>
    /\ OnlyClause

\* SQLComponentExtractor.extract_stored_procedure_params(sql_text)
ExtractStoredProcedureParams ==
    /\ cl_n > 0
    /\ cl_call.op = "none"
    /\ cl_call' = [op |-> "extract_stored_procedure_params",
                   result |-> extract_stored_procedure_params(cl_text)]
    /\ UNCHANGED <<cl_text, cl_n>>
    /\ OnlyClause

\* LineageAnalyzer._extract_target_table(sql), reached from analyze_sql with the
\* normalized text (lines 12-19)
ExtractTargetTable ==
    /\ cl_n > 0
    /\ cl_call.op = "none"
    /\ cl_call' = [op |-> "_extract_target_table",
                   result |-> _extract_target_table(_normalize_sql(cl_text))]
    /\ UNCHANGED <<cl_text, cl_n>>
    /\ OnlyClause

\* LineageAnalyzer._extract_source_tables(sql), likewise (lines 12-20)
ExtractSourceTables ==
    /\ cl_n > 0
    /\ cl_call.op = "none"
    /\ cl_call' = [op |-> "_extract_source_tables",
                   result |-> _extract_source_tables(_normalize_sql(cl_text))]
    /\ UNCHANGED <<cl_text, cl_n>>
    /\ OnlyClause

\* the next statement text
NextStatement ==
    /\ cl_call.op # "none"
    /\ cl_text' = ""
    /\ cl_n' = 0
    /\ cl_call' = NoClauseCall
    /\ OnlyClause

NextClauses ==
    \/ WriteHead
    \/ WriteTail
    \/ ExtractQueryType
    \/ ExtractStoredProcedureParams
    \/ ExtractTargetTable
    \/ ExtractSourceTables
    \/ NextStatement

SpecClauses == InitClauses /\ [][NextClauses]_vars

-----------------------------------------------------------------------------
(* Claims about the splitter and the normalizer *)

\* C1: for an input of N non-blank statements, each terminated by a ";" outside
\* any quoted literal, extract_sql_statements returns exactly N statements, each
\* non-empty and without leading or trailing whitespace (none for blank input).
C1_SplitReturnsEveryStatement ==
    (sp_pc = "done" /\ TerminatedStatements(sql_file_content)) =>
        /\ Len(statements) = NumStatements(sql_file_content)
        /\ \A k \in 1..Len(statements) :
              statements[k] # "" /\ Strip(statements[k]) = statements[k]

\* C2: while the loop reads sql_content, the statement being collected ends at a
\* character if and only if that character is a ";" read while no literal is
\* open, a quote opening a literal when none is open and closing only the
\* literal it opened; the returned list grows only at such a ";" or at the end
\* of the text; INSERT INTO t VALUES ('a;b'); is one statement and a ' inside
\* "..." does not expose the ";" after it.
C2_SemicolonSplitsOnlyOutsideLiterals ==
    /\ [][ (sp_pc = "loop" /\ idx <= Len(sql_content)) =>
             /\ (current_statement' = "") <=>
                   (/\ Ch(sql_content, idx) = ";"
                    /\ OpenQuoteBefore(sql_content, idx) = "")
             /\ (statements' # statements) =>
                   (/\ Ch(sql_content, idx) = ";"
                    /\ OpenQuoteBefore(sql_content, idx) = "") ]_vars
    /\ [](sp_pc = "done" =>
            /\ (sql_file_content = "INSERT INTO t VALUES ('a;b');" =>
                   statements = <<"INSERT INTO t VALUES ('a;b')">>)
            /\ (sql_file_content = "SELECT \"it's;\" FROM t; SELECT 1" =>
                   statements = <<"SELECT \"it's;\" FROM t", "SELECT 1">>))

\* a ";" was read inside a literal opened by the other kind of quote than the
\* one just before it, and the split of the example has finished
C2_Witness ==
    \/ /\ sp_pc = "loop" /\ idx > 1 /\ idx <= Len(sql_content)
       /\ Ch(sql_content, idx) = ";" /\ in_quote
       /\ Ch(sql_content, idx - 1) \in Quotes
       /\ Ch(sql_content, idx - 1) # quote_char
    \/ /\ sp_pc = "done"
       /\ sql_file_content = "INSERT INTO t VALUES ('a;b');"
       /\ statements = <<"INSERT INTO t VALUES ('a;b')">>

\* C29: splitting is stable on its own output: every statement returned for a
\* text, split again, gives that statement alone: it holds no ";" outside a
\* literal, no line comment and no complete block comment.
C29_SplitStableOnOwnOutput ==
    sp_pc = "done" =>
        /\ statements = extract_sql_statements(sql_file_content)
        /\ \A k \in 1..Len(statements) :
              extract_sql_statements(statements[k]) = <<statements[k]>>

\* C29 witness: a text with a ";" inside a literal and a comment was split into
\* two statements or more
C29_Witness ==
    /\ sp_pc = "done"
    /\ Len(statements) >= 2
    /\ sql_content # sql_file_content
    /\ \E k \in 1..Len(statements) : Contains(statements[k], ";")

\* C8: normalization is idempotent, for utils.normalize_sql and for
\* LineageAnalyzer._normalize_sql: normalizing the normalized text changes nothing.
C8_NormalizeIdempotent ==
    nz_pc \in {"utils", "analyzer"} => nz_twice = nz_once

\* a text holding comments and runs of whitespace was normalized to something
\* else than itself
C8_Witness ==
    /\ nz_pc \in {"utils", "analyzer"}
    /\ nz_once # nz_text /\ nz_once # ""
    /\ nz_text = "SELECT  a, -- pick a\n b /* and b */ FROM t ;  "
    /\ nz_once = "SELECT a, b FROM t ;"

-----------------------------------------------------------------------------
(* Claims about the column mappings of analyze_sql *)

\* resolve(e): the source descriptor of expression e in a statement of this kind
Resolve(kind, e) == _extract_column_source(metadata, e, <<SourceOf(kind)>>)

\* position of the entry of key in mappings, 0 when there is none
KeyIndex(mappings, key) ==
    MinOrZero({k \in 1..Len(mappings) : mappings[k][1] = key})

\* C3: for INSERT INTO t (c1,...,cm) SELECT e1,...,en FROM ..., every i up to
\* min(m,n) has the key t.ci with the value [resolve(ei)], the keys standing in
\* target-column order; INSERT INTO t (a,b) SELECT s.x, s.y FROM s gives
\* {t.a: [s.x], t.b: [s.y]}.
C3_InsertMapsByPosition ==
    (an_pc = "done" /\ in_kind = "INSERT") =>
        /\ \A i \in 1..Min(Len(in_cols), Len(in_exprs)) :
              LET k == KeyIndex(column_mappings, "t." \o in_cols[i])
              IN /\ k # 0
                 /\ column_mappings[k][2] =
                        <<Resolve(in_kind, ProjectionText(in_exprs[i]))>>
                 /\ \A j \in 1..(i - 1) :
                        KeyIndex(column_mappings, "t." \o in_cols[j]) < k
        /\ sql_text = "INSERT INTO t (a,b) SELECT s.x, s.y FROM s" =>
              column_mappings = << <<"t.a", <<"s.x">>>>, <<"t.b", <<"s.y">>>> >>

\* C4: when the m target columns and the n projections of an INSERT differ in
\* number, the mapping has exactly min(m,n) entries, those of the first min(m,n)
\* target columns: later target columns have no key and later projections are
\* dropped.
C4_ShorterListBoundsMapping ==
    (an_pc = "done" /\ in_kind = "INSERT" /\ Len(in_cols) # Len(in_exprs)) =>
        /\ Len(column_mappings) = Min(Len(in_cols), Len(in_exprs))
        /\ \A k \in 1..Len(column_mappings) :
              k <= Len(in_cols) /\ column_mappings[k][1] = "t." \o in_cols[k]

\* C5: in CREATE TABLE|VIEW v AS SELECT ... FROM ..., every projection written
\* <inner> AS <alias>, AS in either letter case, gives the entry
\* v.<alias> -> [resolve(<inner>)]; CREATE VIEW v AS SELECT a.x AS foo FROM a
\* gives exactly {v.foo: [a.x]}.
C5_AliasNamesTheTarget ==
    (an_pc = "done" /\ in_kind # "INSERT") =>
        /\ \A i \in 1..Len(in_exprs) :
              in_exprs[i].alias # "" =>
                 \E k \in 1..Len(column_mappings) :
                    column_mappings[k] =
                        <<"v." \o in_exprs[i].alias,
                          <<Resolve(in_kind, in_exprs[i].inner)>>>>
        /\ sql_text = "CREATE VIEW v AS SELECT a.x AS foo FROM a" =>
              column_mappings = << <<"v.foo", <<"a.x">>>> >>

\* C6: in a CREATE ... AS SELECT statement whose only projection is SUM(o.amount),
\* without alias, the target column is named SUM_result and its source is the
\* column o.amount marked as standing inside the function SUM.
C6_FunctionCallNamesResult ==
    (an_pc = "done" /\ in_kind # "INSERT" /\ in_exprs = <<SumProjection>>) =>
        column_mappings = << <<"v.SUM_result", <<"o.amount (in SUM)">>>> >>

-----------------------------------------------------------------------------
(* Claims about the MetadataStore *)

\* the (database, table) a call's table argument names
DbOf(table_name, database_name) == OrDefault(Qualified(table_name, database_name).db)
TableOf(table_name, database_name) == Qualified(table_name, database_name).table

HasTable(md, table_name, database_name) ==
    /\ DbOf(table_name, database_name) \in DOMAIN md
    /\ TableOf(table_name, database_name) \in DOMAIN md[DbOf(table_name, database_name)]

\* C7: whatever calls of add_database, add_table, add_column,
\* set_table_description and set_column_description built the store, exporting it
\* to JSON and importing the document into a fresh store gives a registry equal
\* to the original.
C7_JsonRoundTrip == call.op = "import" => imported = metadata

\* a store with a described table, a column with a non-empty property bag and a
\* table whose name holds a dot went through the round trip
C7_Witness ==
    /\ call.op = "import" /\ imported = metadata
    /\ \E db \in DOMAIN metadata : \E t \in DOMAIN metadata[db] :
          /\ "description" \in DOMAIN metadata[db][t][TableProps]
          /\ "c" \in DOMAIN metadata[db][t]
          /\ metadata[db][t]["c"] # EmptyDict
    /\ \E db \in DOMAIN metadata : "db1.t" \in DOMAIN metadata[db]

\* the call repeated on the store it produced
Repeat(md, c) ==
    CASE c.op = "add_database" -> add_database(md, c.args[1])
      [] c.op = "add_table" -> add_table(md, c.args[1], c.args[2], c.args[3])
      [] c.op = "add_column" ->
            add_column(md, c.args[1], c.args[2], c.args[3], c.args[4], c.args[5])
      [] OTHER -> md

\* C9: add_database, add_table and add_column are idempotent: right after a call,
\* the same call with the same arguments leaves the store as it is; and add_table
\* on a table that is already there (with columns, with a description) removes
\* or resets nothing.
C9_AddIsIdempotent ==
    /\ call.op \in {"add_database", "add_table", "add_column"} =>
          Repeat(metadata, call) = metadata
    /\ \A t \in TableArgs, db \in DbArgs :
          HasTable(metadata, t, db) => add_table(metadata, t, db, "") = metadata
    /\ \A db \in DOMAIN metadata : add_database(metadata, db) = metadata

\* add_table was just called on a table that already held a column and a
\* description, and both are still there
C9_Witness ==
    /\ call.op = "add_table"
    /\ HasTable(metadata, call.args[1], call.args[2])
    /\ LET entry == metadata[DbOf(call.args[1], call.args[2])]
                            [TableOf(call.args[1], call.args[2])]
       IN /\ "c" \in DOMAIN entry
          /\ "description" \in DOMAIN entry[TableProps]
          /\ call.args[3] = ""
    /\ n_ops = 3

\* C10: add_column on a column that already exists merges the given bag into the
\* stored one: a key stored before the call and absent from the call's bag keeps
\* its value, and a call without properties erases nothing.
C10_AddColumnMergesBag ==
    [][ (call'.op = "add_column" /\ n_ops' = n_ops + 1) =>
          LET a  == call'.args
              db == DbOf(a[2], a[3])
              t  == TableOf(a[2], a[3])
              given == DOMAIN a[4] \cup (IF a[5] # "" THEN {"description"} ELSE {})
          IN column_exists(metadata, a[2], a[1], a[3]) =>
                \A k \in DOMAIN metadata[db][t][a[1]] \ given :
                    /\ k \in DOMAIN metadata'[db][t][a[1]]
                    /\ metadata'[db][t][a[1]][k] = metadata[db][t][a[1]][k] ]_vars

\* C11: after any sequence of store operations get_columns(table, database)
\* returns exactly the names of the columns added to that table, never the
\* reserved per-table slot, and the empty list for a table without columns.
C11_GetColumnsListsOnlyColumns ==
    \A t \in TableArgs, db \in DbArgs :
        LET listed == Range(get_columns(metadata, t, db))
        IN /\ TableProps \notin listed
           /\ listed = {c \in ColArgs : column_exists(metadata, t, c, db)}

\* C12: add_column(c, t, db) on a table that was never added creates the
\* database (db, or default), creates table t with an empty reserved slot and
\* inserts c: afterwards column_exists(t, c, db) holds and the description of t
\* is the empty string.
C12_AddColumnCreatesTable ==
    [][ (call'.op = "add_column" /\ n_ops' = n_ops + 1) =>
          LET a  == call'.args
              db == DbOf(a[2], a[3])
              t  == TableOf(a[2], a[3])
          IN ~HasTable(metadata, a[2], a[3]) =>
                /\ db \in DOMAIN metadata'
                /\ t \in DOMAIN metadata'[db]
                /\ TableProps \in DOMAIN metadata'[db][t]
                /\ metadata'[db][t][TableProps] = EmptyDict
                /\ DOMAIN metadata'[db][t] = {TableProps, a[1]}
                /\ column_exists(metadata', a[2], a[1], a[3])
                /\ get_table_description(metadata', a[2], a[3]) = ""
                /\ \A d \in DOMAIN metadata : metadata[d] = IF d = db
                      THEN [x \in DOMAIN metadata'[d] \ {t} |-> metadata'[d][x]]
                      ELSE metadata'[d] ]_vars

\* the first call of a session was add_column without a database: database
\* default and the table were created for it
C12_Witness ==
    /\ call.op = "add_column" /\ n_ops = 1 /\ call.args[3] = ""
    /\ call.args[2] = "t"
    /\ DOMAIN metadata = {"default"}
    /\ metadata["default"]["t"][TableProps] = EmptyDict
    /\ column_exists(metadata, "t", call.args[1], "")

\* the <<database, table>> a table name and an optional database stand for, as
\* the registry's contract words it
Where(name, database) ==
    IF database # "" THEN <<database, name>>
    ELSE IF NumDots(name) = 1
         THEN <<SubSeq(name, 1, FirstDot(name) - 1),
                SubSeq(name, FirstDot(name) + 1, Len(name))>>
         ELSE <<"default", name>>

\* a store holds a table at a place; the entry stored there
HasPlace(md, w) == w[1] \in DOMAIN md /\ w[2] \in DOMAIN md[w[1]]
EntryAt(md, w) == md[w[1]][w[2]]

\* the places of a store that hold a table
Places(md) == UNION {{<<d, t>> : t \in DOMAIN md[d]} : d \in DOMAIN md}

\* the table name and the database argument of a recorded call
NameOfCall(c) == IF c.op \in {"add_table", "set_table_description"} THEN c.args[1] ELSE c.args[2]
DatabaseOfCall(c) ==
    CASE c.op = "add_table" -> c.args[2]
      [] c.op = "add_column" -> c.args[3]
      [] c.op = "set_table_description" -> c.args[3]
      [] OTHER -> c.args[4]

EveryTableHasSlot(md) ==
    \A db \in DOMAIN md : \A t \in DOMAIN md[db] : TableProps \in DOMAIN md[db][t]

\* every database, table and column of before is in after
NothingRemoved(before, after) ==
    \A db \in DOMAIN before :
        /\ db \in DOMAIN after
        /\ \A t \in DOMAIN before[db] :
              /\ t \in DOMAIN after[db]
              /\ \A c \in DOMAIN before[db][t] : c \in DOMAIN after[db][t]

\* C27: under any sequence of add_database, add_table, add_column,
\* set_table_description, set_column_description and the JSON, CSV and SQL
\* imports, every table of the registry has the reserved _table_properties slot
\* (a table is held by its database, which therefore exists), and no call
\* removes a database, a table or a column that was there before it.
C27_RegistryOnlyGrows ==
    [][EveryTableHasSlot(metadata') /\ NothingRemoved(metadata, metadata')]_vars

\* C27 witness: load_metadata_from_sql declared the columns x and y of a table
\* that already held the column c, and all three are there
C27_Witness ==
    /\ call.op = "load_metadata_from_sql"
    /\ "default" \in DOMAIN metadata
    /\ "t" \in DOMAIN metadata["default"]
    /\ {"c", "x", "y", TableProps} \subseteq DOMAIN metadata["default"]["t"]

-----------------------------------------------------------------------------
(* Claims about the metadata imports *)

CsvCalls == {"import_metadata_from_csv", "process_pasted_csv"}
JsonCalls == {"import_metadata_from_json", "process_pasted_json"}

\* a CSV document with the three required headers and a full row for each
CompleteCsv(doc) ==
    /\ Range(RequiredFields) \subseteq Range(doc.header)
    /\ \A i \in 1..Len(doc.rows) : Len(doc.rows[i]) = Len(doc.header)

\* every row of the document is in the store: its column, with the row's
\* non-empty extra values as properties, under the row's database (or default)
RowsStored(md, doc) ==
    \A i \in 1..Len(doc.rows) :
        LET v(key) == doc.rows[i][CHOOSE j \in 1..Len(doc.header) : doc.header[j] = key]
            db == IF v("database_name") = "" THEN "default" ELSE v("database_name")
        IN /\ column_exists(md, v("table_name"), v("column_name"), db)
           /\ \A j \in 1..Len(doc.header) :
                 (doc.header[j] \notin Range(RequiredFields) /\ doc.rows[i][j] # "") =>
                     /\ doc.header[j] \in DOMAIN md[db][v("table_name")][v("column_name")]
                     /\ md[db][v("table_name")][v("column_name")][doc.header[j]] = doc.rows[i][j]

\* C14: a CSV import (from a file or pasted) whose header lacks database_name,
\* table_name or column_name imports no row: the store is as before the call
\* and no exception reaches the caller; and a later import of a valid document
\* into the same store succeeds, every row of it being stored.
C14_CsvWithoutRequiredHeaderImportsNothing ==
    [][ (call'.op \in CsvCalls /\ n_ops' = n_ops + 1) =>
          LET doc == call'.args[1]
          IN /\ ~(Range(RequiredFields) \subseteq Range(doc.header)) =>
                   /\ metadata' = metadata
                   /\ ~call'.raised
                   /\ call'.reported
             /\ CompleteCsv(doc) =>
                   /\ RowsStored(metadata', doc)
                   /\ ~call'.raised
                   /\ ~call'.reported ]_vars

\* a pasted CSV without the column_name header was just rejected by a store
\* that held tables, which it still holds
C14_Witness ==
    /\ call.op = "process_pasted_csv"
    /\ "column_name" \notin Range(call.args[1].header)
    /\ call.args[1].rows # <<>>
    /\ call.reported /\ ~call.raised
    /\ n_ops = 2
    /\ metadata # EmptyDict

\* a JSON text that does not load as the nested registry: not JSON, not an
\* object, or with a table level or column level that is not an object
Malformed(v) ==
    \/ v.type # "object"
    \/ \E i \in 1..Len(v.members) :
          \/ v.members[i][2].type # "object"
          \/ \E j \in 1..Len(v.members[i][2].members) :
                v.members[i][2].members[j][2].type # "object"

\* C15: a JSON import whose content does not load as the nested registry
\* leaves the store exactly as it was before the call, with no database, table
\* or column of the rejected document in it, and raises nothing to the caller.
C15_MalformedJsonLeavesStoreUnchanged ==
    [][ (call'.op \in JsonCalls /\ n_ops' = n_ops + 1 /\ Malformed(call'.args[1])) =>
          /\ metadata' = metadata
          /\ ~call'.raised ]_vars

-----------------------------------------------------------------------------
(* Claims about the graph builds *)

NetworkBuilt == gr_pc = "network"

GraphNode(id, label, group) == [id |-> id, label |-> label, group |-> group]

GraphEdge(from_id, to_id) == [from |-> from_id, to |-> to_id]

\* C16: the network built from the mapping {t.c: [s.c]} has exactly the nodes
\* table t, column c of t, table s, column c of s, in that order, and exactly
\* the edges t -> t.c, s -> s.c, s.c -> t.c, in that order
C16_GraphOfOneSourceMapping ==
    (NetworkBuilt /\ viz_mappings = << <<"t.c", <<"s.c">>>> >>) =>
        /\ graph_data.nodes = <<GraphNode(0, "t", "table"), GraphNode(1, "c", "column"),
                                GraphNode(2, "s", "table"), GraphNode(3, "c", "column")>>
        /\ graph_data.edges = <<GraphEdge(0, 1), GraphEdge(2, 3), GraphEdge(3, 1)>>

\* the occurrences of function-tagged source texts in a mapping
RECURSIVE FunctionOccurrences(_)
FunctionOccurrences(column_mappings_) ==
    IF column_mappings_ = <<>> THEN 0
    ELSE Cardinality({i \in DOMAIN Head(column_mappings_)[2] :
                         Contains(Head(column_mappings_)[2][i], "Function:")})
         + FunctionOccurrences(Tail(column_mappings_))

FunctionNodes(g) == {i \in DOMAIN g.nodes : g.nodes[i].group = "function"}

\* C17: function nodes are never deduplicated: a mapping in which function
\* source texts occur k times yields a network with k function nodes
C17_FunctionNodesNeverDeduplicated ==
    NetworkBuilt =>
        Cardinality(FunctionNodes(graph_data)) = FunctionOccurrences(viz_mappings)

\* the edges of g into the node with this id that leave a table node
EdgesFromTables(g, id) ==
    {e \in DOMAIN g.edges :
        g.edges[e].to = id /\ g.nodes[g.edges[e].from + 1].group = "table"}

\* C26: in the graph of one build call the i-th node created has id i (ids
\* 0..n-1, no gaps, no repeats), both ends of every edge are ids of nodes of the
\* graph, and every column node has exactly one incoming edge from a table
\* node, its own table, which was created before it.
C26_NodeIdsInFirstSeenOrder ==
    NetworkBuilt =>
        /\ \A i \in DOMAIN graph_data.nodes : graph_data.nodes[i].id = i - 1
        /\ \A e \in DOMAIN graph_data.edges :
              /\ graph_data.edges[e].from \in 0..(Len(graph_data.nodes) - 1)
              /\ graph_data.edges[e].to \in 0..(Len(graph_data.nodes) - 1)
        /\ \A i \in DOMAIN graph_data.nodes :
              graph_data.nodes[i].group = "column" =>
                  /\ Cardinality(EdgesFromTables(graph_data, i - 1)) = 1
                  /\ \A e \in EdgesFromTables(graph_data, i - 1) :
                        graph_data.edges[e].from < i - 1

\* C26 witness: a network in which a column node was met again after it was
\* created (two edges leave it) and a target column has edges from its table
\* and from a source
C26_Witness ==
    /\ NetworkBuilt
    /\ \E i \in DOMAIN graph_data.nodes :
          /\ graph_data.nodes[i].group = "column"
          /\ Cardinality({e \in DOMAIN graph_data.edges :
                             graph_data.edges[e].from = i - 1}) >= 2
    /\ \E i \in DOMAIN graph_data.nodes :
          /\ graph_data.nodes[i].group = "column"
          /\ Cardinality({e \in DOMAIN graph_data.edges :
                             graph_data.edges[e].to = i - 1}) >= 2

-----------------------------------------------------------------------------
(* Claims about the metadata extraction *)

\* C18: when extract_metadata_from_text returns False, the JSON step and the
\* pattern matcher having both failed, the store passed in is as it was before
\* the call and no exception reaches the caller
C18_FailedExtractionLeavesStoreUnchanged ==
    [][ (call'.op = "extract_metadata_from_text" /\ n_ops' = n_ops + 1
         /\ ~call'.returned) =>
          /\ metadata' = metadata
          /\ ~call'.raised ]_vars

-----------------------------------------------------------------------------
(* Claims about the resolver *)

Resolved == call.op = "_extract_column_source"

\* a bare identifier: word characters only, no "." and no "("
BareIdentifier(expr) == expr # "" /\ \A i \in 1..Len(expr) : IsWord(Ch(expr, i))

\* the places of the source tables for which the store reports the column
Holders(md, source_tables, column) ==
    {i \in 1..Len(source_tables) : column_exists(md, source_tables[i], column, "")}

\* C19: a bare identifier resolves to table.identifier for the first table, in
\* the order of the source tables, for which the store reports a column of
\* that name; the earliest of several such tables wins; when no source table
\* has it, or the store is empty, the expression is returned as it is
C19_BareIdentifierBindsToFirstTable ==
    (Resolved /\ BareIdentifier(call.args[1])) =>
        LET holders == Holders(metadata, call.args[2], call.args[1])
        IN IF holders = {}
           THEN call.result = call.args[1]
           ELSE \E i \in holders :
                   /\ \A j \in holders : i <= j
                   /\ call.result = call.args[2][i] \o "." \o call.args[1]

\* x is a column of both source tables, and was bound to the first of them, u
C19_Witness ==
    /\ Resolved
    /\ call.args = <<"x", <<"u", "s">>>>
    /\ Holders(metadata, call.args[2], "x") = {1, 2}
    /\ call.result = "u.x"

\* the expression is exactly identifier.identifier
ExactlyQualified(expr) ==
    \E j \in 2..(Len(expr) - 1) :
        /\ Ch(expr, j) = "."
        /\ \A i \in 1..Len(expr) : i # j => IsWord(Ch(expr, i))

\* the expression is identifier(arguments): the places of "(" and of the
\* closing ")" at its end
CallForm(expr) ==
    {j \in 2..(Len(expr) - 1) :
        /\ Ch(expr, j) = "(" /\ Ch(expr, Len(expr)) = ")"
        /\ \A i \in 1..(j - 1) : IsWord(Ch(expr, i))
        /\ \A i \in (j + 1)..(Len(expr) - 1) : Ch(expr, i) \notin {"(", ")"}}

\* the first identifier.identifier in a text, "" when it has none
EmbeddedColumn(text) ==
    IF QualifiedRef(text) = <<>> THEN ""
    ELSE QualifiedRef(text)[1] \o "." \o QualifiedRef(text)[2]

\* C20: the cascade is applied in order: an expression that is exactly
\* identifier.identifier resolves to that column; an expression of the form
\* identifier(...) resolves to the embedded identifier.identifier marked as
\* inside the function when its arguments hold one, and to
\* "Function: name(args)" otherwise, never to a plain qualified column
C20_CascadeInOrder ==
    Resolved =>
        /\ ExactlyQualified(call.args[1]) => call.result = call.args[1]
        /\ \A j \in CallForm(call.args[1]) :
              LET name == SubSeq(call.args[1], 1, j - 1)
                  arguments == SubSeq(call.args[1], j + 1, Len(call.args[1]) - 1)
              IN call.result =
                    IF EmbeddedColumn(arguments) # ""
                    THEN EmbeddedColumn(arguments) \o " (in " \o name \o ")"
                    ELSE "Function: " \o name \o "(" \o arguments \o ")"

-----------------------------------------------------------------------------
(* Claims about the clauses of a statement *)

\* C21: the projection list is the text between SELECT and the first FROM
\* outside parentheses, split on the commas outside parentheses: a FROM inside
\* a call does not end it and a comma inside a call does not split it, so the
\* statement has as many projection expressions as were written, each as written
C21_ProjectionListIsTopLevel ==
    an_pc = "done" =>
        ProjectionList(_normalize_sql(sql_text))
            = [i \in 1..Len(in_exprs) |-> ProjectionText(in_exprs[i])]

\* the table name after FROM or after JOIN at index k, "" when neither is there
KeywordTableAt(s, k) ==
    FirstNonEmpty(<< TableNameAt(s, k, "FROM"), TableNameAt(s, k, "JOIN") >>)

InSeq(x, xs) == \E j \in 1..Len(xs) : xs[j] = x

\* the table names after FROM and JOIN from index i on, in the order of their
\* positions, each distinct string once
RECURSIVE TablesByPosition(_, _, _)
TablesByPosition(s, i, seen) ==
    Bind(FirstIdx(s, i, LAMBDA k : KeywordTableAt(s, k) # ""),
         LAMBDA m :
            IF m = 0 THEN seen
            ELSE TablesByPosition(s, m + 1,
                                  IF InSeq(KeywordTableAt(s, m), seen) THEN seen
                                  ELSE Append(seen, KeywordTableAt(s, m))))

\* C22: the source-table list of a statement holds every token that follows a
\* FROM or a JOIN, in the order of their positions in the statement text, each
\* distinct string exactly once, the first occurrence keeping its place.
C22_SourceTablesInTextOrderOnce ==
    cl_call.op = "_extract_source_tables" =>
        cl_call.result = TablesByPosition(_normalize_sql(cl_text), 1, <<>>)

QueryTypes ==
    {"SELECT", "INSERT", "UPDATE", "DELETE", "CREATE TABLE", "CREATE VIEW",
     "CREATE PROCEDURE", "ALTER", "DROP", "UNKNOWN"}

\* the indexes a CREATE statement can have reached after "CREATE", the optional
\* "OR REPLACE" and, when temp is allowed, the optional "TEMP" or "TEMPORARY"
AfterCreateModifiers(s, temp) ==
    LET p == AfterKw(s, 1, "CREATE")
        replaced == {p, OrReplace(s, p)}
    IN (replaced \cup (IF temp
                       THEN {AfterKw(s, q, "TEMP") : q \in replaced}
                                \cup {AfterKw(s, q, "TEMPORARY") : q \in replaced}
                       ELSE {})) \ {0}

\* the stripped text begins CREATE [OR REPLACE] [TEMP|TEMPORARY] <object>
BeginsCreate(text, object, temp) ==
    \E p \in AfterCreateModifiers(Strip(text), temp) : MatchCI(Strip(text), p, object)

BeginsWord(text, word) == MatchCI(Strip(text), 1, word)

\* C23: extract_query_type answers every text with one of the ten query types,
\* whatever the case of the keywords: CREATE [OR REPLACE] [TEMP|TEMPORARY] TABLE
\* is CREATE TABLE, CREATE [OR REPLACE] VIEW is CREATE VIEW, CREATE [OR REPLACE]
\* PROCEDURE|FUNCTION is CREATE PROCEDURE, and UNKNOWN is the answer only when
\* no prefix fits.
C23_QueryTypeOfEveryPrefix ==
    cl_call.op = "extract_query_type" =>
        /\ cl_call.result \in QueryTypes
        /\ BeginsCreate(cl_text, "TABLE", TRUE) => cl_call.result = "CREATE TABLE"
        /\ BeginsCreate(cl_text, "VIEW", FALSE) => cl_call.result = "CREATE VIEW"
        /\ (BeginsCreate(cl_text, "PROCEDURE", FALSE)
                \/ BeginsCreate(cl_text, "FUNCTION", FALSE))
              => cl_call.result = "CREATE PROCEDURE"
        /\ cl_call.result = "UNKNOWN" =>
              /\ \A word \in {"SELECT", "INSERT", "UPDATE", "DELETE", "ALTER", "DROP"} :
                    ~BeginsWord(cl_text, word)
              /\ \A object \in {"VIEW", "PROCEDURE", "FUNCTION"} :
                    ~BeginsCreate(cl_text, object, FALSE)
              /\ ~BeginsCreate(cl_text, "TABLE", TRUE)

\* the token after CREATE [OR REPLACE] [TEMP|TEMPORARY] <object> at index i, the
\* modifiers skipped with the blanks after them
CreatedObjectAt(s, i, object, temp) ==
    LET p == AfterKw(s, i, "CREATE")
        replaced == {p, OrReplace(s, p)}
        starts == replaced \cup (IF temp
                                 THEN {AfterKw(s, q, "TEMP") : q \in replaced}
                                        \cup {AfterKw(s, q, "TEMPORARY") : q \in replaced}
                                 ELSE {})
        names == {Token(s, AfterKw(s, q, object), {"("}) : q \in starts} \ {""}
    IN IF names = {} THEN "" ELSE CHOOSE name \in names : TRUE

\* the target by the modifiers skipped: INSERT INTO first, then CREATE TABLE,
\* then CREATE VIEW, then the placeholder
TargetByKeyword(s) ==
    FirstNonEmpty(<< Search(s, LAMBDA i : InsertIntoAt(s, i)),
                     Search(s, LAMBDA i : CreatedObjectAt(s, i, "TABLE", TRUE)),
                     Search(s, LAMBDA i : CreatedObjectAt(s, i, "VIEW", FALSE)),
                     "Unknown" >>)

\* C24: the target table of a statement is the first token, ended by a blank or
\* "(", after INSERT INTO, CREATE TABLE or CREATE VIEW with the optional OR
\* REPLACE, TEMP and TEMPORARY skipped; an INSERT INTO target wins over a CREATE
\* one, and without any of them the target is "Unknown".
C24_TargetTableSkipsModifiers ==
    cl_call.op = "_extract_target_table" =>
        cl_call.result = TargetByKeyword(_normalize_sql(cl_text))

\* the index of the ")" that closes the parenthesis open before index i, 0 when
\* it is never closed
RECURSIVE ClosingParen(_, _, _)
ClosingParen(s, i, level) ==
    IF i > Len(s) THEN 0
    ELSE IF Ch(s, i) = "(" THEN ClosingParen(s, i + 1, level + 1)
    ELSE IF Ch(s, i) = ")"
         THEN IF level = 0 THEN i ELSE ClosingParen(s, i + 1, level - 1)
    ELSE ClosingParen(s, i + 1, level)

\* the whole parenthesized parameter list of the procedure declared at index i,
\* "" when none is declared there
ParameterListAt(s, i) ==
    LET p == AfterKw(s, i, "CREATE")
        names == {AfterKw(s, OrReplace(s, p), "PROCEDURE"), AfterKw(s, p, "PROCEDURE")} \ {0}
    IN IF names = {} THEN ""
       ELSE LET n == CHOOSE q \in names : TRUE
                open == SkipWS(s, TokenEnd(s, n, {"("}))
            IN IF TokenEnd(s, n, {"("}) = n \/ Ch(s, open) # "(" THEN ""
               ELSE IF ClosingParen(s, open + 1, 0) = 0 THEN ""
               ELSE SubSeq(s, open + 1, ClosingParen(s, open + 1, 0) - 1)

\* the parameters of a statement that declares a procedure, split on the commas
\* outside parentheses
TopLevelParams(s) == SplitTopLevel(Search(s, LAMBDA i : ParameterListAt(s, i)), 1, "", 0)

DeclaresProcedure(s) == Search(s, LAMBDA i : ParameterListAt(s, i)) # ""

\* C25: extract_stored_procedure_params splits the parameter list of CREATE
\* PROCEDURE name(...) on its top-level commas only, a nested type such as
\* DECIMAL(10,2) staying in one parameter, and puts every parameter on the input
\* list, the output list or both: INOUT on both, OUT on the output list only,
\* IN and no direction on the input list only.
C25_ParamsSplitOnTopLevelCommas ==
    (cl_call.op = "extract_stored_procedure_params" /\ DeclaresProcedure(cl_text)) =>
        LET params == TopLevelParams(cl_text)
            Direction(param) ==
                IF HasWordCI(param, "INOUT") THEN "both"
                ELSE IF HasWordCI(param, "OUT") THEN "out"
                ELSE "in"
        IN /\ cl_call.result.input_params
                = SelectSeq(params, LAMBDA param : Direction(param) \in {"in", "both"})
           /\ cl_call.result.output_params
                = SelectSeq(params, LAMBDA param : Direction(param) \in {"out", "both"})

-----------------------------------------------------------------------------
(* Claims about reads of the store and about the analysis loop *)

ReadOps ==
    {"analyze_sql", "column_exists", "get_columns", "get_table_description",
     "get_column_description"}

WriteOps == {"add_column", "set_table_description"}

\* C28: the reads leave the store as it is: analyze_sql (with its resolution of
\* bare identifiers through column_exists), column_exists, get_columns,
\* get_table_description and get_column_description create no database, table
\* or column, also for names the store does not hold; only the add and set
\* calls change the registry.
C28_ReadsLeaveStoreUnchanged ==
    [][/\ (n_ops' # n_ops /\ call'.op \in ReadOps) => metadata' = metadata
       /\ metadata' # metadata => call'.op \in WriteOps]_vars

\* C28 witness: analyze_sql asked the store about x in u, a table it does not
\* hold, found x in s, and u is still not in the store
C28_Witness ==
    /\ call.op = "analyze_sql"
    /\ call.result = << <<"v.x", <<"s.x">>>> >>
    /\ "default" \in DOMAIN metadata
    /\ "s" \in DOMAIN metadata["default"]
    /\ "u" \notin DOMAIN metadata["default"]

\* the name and the whole parenthesized column list of the table a statement
\* creates, the optional OR REPLACE, TEMP and TEMPORARY skipped
DeclaredTableAt(s, i) ==
    LET p == AfterKw(s, i, "CREATE")
        replaced == {p, OrReplace(s, p)}
        starts == replaced \cup {AfterKw(s, q, "TEMP") : q \in replaced}
                           \cup {AfterKw(s, q, "TEMPORARY") : q \in replaced}
        names == {AfterKw(s, q, "TABLE") : q \in starts} \ {0}
    IN IF names = {} THEN NoDefinition
       ELSE LET n == CHOOSE q \in names : TRUE
                e == TokenEnd(s, n, {"("})
                open == SkipWS(s, e)
            IN IF e = n \/ open > Len(s) \/ Ch(s, open) # "("
                    \/ ClosingParen(s, open + 1, 0) = 0
               THEN NoDefinition
               ELSE [name |-> SubSeq(s, n, e - 1),
                     capture |-> SubSeq(s, open + 1, ClosingParen(s, open + 1, 0) - 1),
                     end |-> ClosingParen(s, open + 1, 0) + 1]

\* the columns of a declaration: the first word of each piece between its
\* top-level commas
RECURSIVE DeclareColumns(_, _, _, _)
DeclareColumns(md, pieces, i, table) ==
    IF i > Len(pieces) THEN md
    ELSE DeclareColumns(add_column(md, Token(pieces[i], 1, {}), table, "", EmptyDict, ""),
                        pieces, i + 1, table)

\* the store with the table a statement declares, all its columns in it
Declare(md, s) ==
    Bind(FirstIdx(s, 1, LAMBDA k : DeclaredTableAt(s, k) # NoDefinition),
         LAMBDA m :
            IF m = 0 THEN md
            ELSE DeclareColumns(add_table(md, DeclaredTableAt(s, m).name, "", ""),
                                SplitTopLevel(DeclaredTableAt(s, m).capture, 1, "", 0),
                                1, DeclaredTableAt(s, m).name))

\* the store holding what the statements 1..j of the script declare: nothing
\* of a later statement
RECURSIVE DeclaredUpTo(_, _)
DeclaredUpTo(script_statements, j) ==
    IF j = 0 THEN EmptyDict
    ELSE LoadCreatedViews(Declare(DeclaredUpTo(script_statements, j - 1),
                                  script_statements[j]),
                          script_statements[j], 1)

\* C30: the loop handles the statements in split order, the store updated from
\* a statement's DDL before that statement is analyzed: the mappings of
\* statement j are those of an analysis that sees every column declared by a
\* CREATE TABLE of the statements 1..j and none of a later statement.
C30_DeclaredColumnsVisibleFromTheirStatementOn ==
    lp_pc = "done" =>
        /\ Len(lp_mappings) = Len(lp_statements)
        /\ \A j \in 1..Len(lp_statements) :
              lp_mappings[j] = analyze_sql(DeclaredUpTo(lp_statements, j),
                                           lp_statements[j])

=============================================================================
